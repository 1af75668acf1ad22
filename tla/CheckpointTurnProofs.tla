------------------------ MODULE CheckpointTurnProofs ------------------------
(***************************************************************************)
(* What holds of a host between two compilations, for every set of         *)
(* artifacts, arguments, previews, limits and faults of the store: nothing *)
(* that was stored is lost sight of, a committed blob is the payload it    *)
(* stands for, replacing by origin removes what it replaces, and removals  *)
(* do not take tool rounds apart.                                          *)
(*                                                                         *)
(* A batch of deltas is a fold, so the proofs about commits go along the   *)
(* states on its way: LEMMA PathOf says what these states are.             *)
(*                                                                         *)
(* The second half is about the preparation of a compilation, which reads  *)
(* the same conversations with the same operators: what a resolved block   *)
(* does to the artifacts that are shown, what may be called before the     *)
(* configuration was found valid, and where the identities that are        *)
(* written back stand.                                                     *)
(***************************************************************************)
EXTENDS CheckpointTurn, CompilePrepare, SequenceTheorems, FiniteSetTheorems,
        WellFoundedInduction, TLAPS

-----------------------------------------------------------------------------
(* Induction and sequences *)

\* Induction over the natural numbers, for a set of them.
LEMMA NatSetInduction ==
    ASSUME NEW S, 0 \in S, \A n \in Nat : n \in S => n + 1 \in S
    PROVE  Nat \subseteq S
<1> DEFINE T == Nat \ S
<1>1. SUFFICES ASSUME T # {} PROVE FALSE
  OBVIOUS
<1>2. IsWellFoundedOn(OpToRel(<, Nat), Nat)
  BY NatLessThanWellFounded
<1>3. PICK x \in T : \A y \in T : ~(<<y, x>> \in OpToRel(<, Nat))
  BY <1>1, <1>2, WFMin
<1>4. x \in Nat /\ x # 0
  BY <1>3
<1>5. x - 1 \in Nat /\ x - 1 < x /\ (x - 1) + 1 = x
  BY <1>4
<1>6. <<x - 1, x>> \in OpToRel(<, Nat)
  BY <1>4, <1>5 DEF OpToRel
<1>7. x - 1 \notin T
  BY <1>3, <1>6
<1>8. x - 1 \in S
  BY <1>5, <1>7
<1> QED
  BY <1>3, <1>5, <1>8

IsSequence(h) == h \in Seq(Range(h))

LEMMA SequenceDomain ==
    ASSUME NEW h, IsSequence(h)
    PROVE  Len(h) \in Nat /\ DOMAIN h = 1..Len(h)
BY DEF IsSequence

\* g is h with a behind it.
WithOne(h, a, g) ==
    /\ IsSequence(g) /\ Len(g) = Len(h) + 1
    /\ \A i \in DOMAIN h : g[i] = h[i]
    /\ g[Len(h) + 1] = a

LEMMA OneAppended ==
    ASSUME NEW h, IsSequence(h), NEW a
    PROVE  WithOne(h, a, Append(h, a))
BY DEF IsSequence, Range, WithOne

-----------------------------------------------------------------------------
(* The states on the way of a batch *)

\* One delta further.
Advance(path, d) == IF Last(path) = None THEN path ELSE Append(path, ApplyDelta(Last(path), d))

\* f is the fold of ds from s over the subsets of D, the last index first.
FoldsOver(f, D, s, ds) ==
    f = [x \in SUBSET D |->
           IF x = {} THEN <<s>> ELSE Advance(f[x \ {Max(x)}], ds[Max(x)])]

LEMMA FoldDefinition ==
    ASSUME NEW s, NEW ds
    PROVE  ApplyDeltas(s, ds) = (CHOOSE f : FoldsOver(f, DOMAIN ds, s, ds))[DOMAIN ds]
BY DEF ApplyDeltas, FoldLeft, MapThenFoldSet, Advance, FoldsOver

LEMMA MaxOfLast ==
    ASSUME NEW n \in Nat, NEW x, x \subseteq 1..n, n \in x
    PROVE  Max(x) = n
<1>1. \A y \in x : n >= y
  OBVIOUS
<1>2. Max(x) \in x /\ \A y \in x : Max(x) >= y
  BY <1>1 DEF Max
<1>3. Max(x) \in 1..n /\ Max(x) >= n
  BY <1>2
<1> QED
  BY <1>3

LEMMA FoldExtends ==
    ASSUME NEW k \in Nat, NEW s, NEW ds, NEW f, FoldsOver(f, 1..k, s, ds)
    PROVE  \E g : FoldsOver(g, 1..k + 1, s, ds)
<1> DEFINE g == [x \in SUBSET (1..k + 1) |->
                   IF k + 1 \notin x THEN f[x] ELSE Advance(f[x \ {k + 1}], ds[k + 1])]
           body(x) == IF x = {} THEN <<s>> ELSE Advance(g[x \ {Max(x)}], ds[Max(x)])
<1>1. ASSUME NEW x \in SUBSET (1..k + 1)
      PROVE  g[x] = body(x)
  <2>1. CASE k + 1 \notin x
    <3>1. x \in SUBSET (1..k)
      BY <2>1
    <3>2. f[x] = IF x = {} THEN <<s>> ELSE Advance(f[x \ {Max(x)}], ds[Max(x)])
      BY <3>1 DEF FoldsOver
    <3>3. g[x \ {Max(x)}] = f[x \ {Max(x)}]
      BY <2>1
    <3> QED
      BY <2>1, <3>2, <3>3
  <2>2. CASE k + 1 \in x
    <3> HIDE DEF g
    <3>1. Max(x) = k + 1
      <4>1. k + 1 \in Nat /\ x \subseteq 1..k + 1
        OBVIOUS
      <4> QED
        BY <2>2, <4>1, MaxOfLast
    <3>2. g[x \ {k + 1}] = f[x \ {k + 1}]
      BY DEF g
    <3>3. g[x] = Advance(f[x \ {k + 1}], ds[k + 1])
      BY <2>2 DEF g
    <3> QED
      BY <2>2, <3>1, <3>2, <3>3
  <2> QED
    BY <2>1, <2>2
<1>2. g = [x \in SUBSET (1..k + 1) |-> g[x]]
  OBVIOUS
<1> HIDE DEF g
<1>3. g = [x \in SUBSET (1..k + 1) |-> body(x)]
  BY <1>1, <1>2
<1> QED
  BY <1>3 DEF FoldsOver

LEMMA FoldExists ==
    ASSUME NEW s, NEW ds
    PROVE  \A n \in Nat : \E f : FoldsOver(f, 1..n, s, ds)
<1> DEFINE S == {n \in Nat : \E f : FoldsOver(f, 1..n, s, ds)}
<1>1. 0 \in S
  <2> DEFINE f == [x \in {{}} |-> <<s>>]
  <2>1. SUBSET (1..0) = {{}}
    OBVIOUS
  <2>2. FoldsOver(f, 1..0, s, ds)
    BY <2>1 DEF FoldsOver
  <2> QED
    BY <2>2
<1>2. \A n \in Nat : n \in S => n + 1 \in S
  BY FoldExtends
<1> HIDE DEF S
<1>3. Nat \subseteq S
  BY <1>1, <1>2, NatSetInduction
<1> QED
  BY <1>3 DEF S

\* p goes from s through k of the deltas ds, or ends at a delta that is refused.
Along(p, k, s, ds) ==
    /\ IsSequence(p)
    /\ Len(p) \in 1..k + 1
    /\ p[1] = s
    /\ \A i \in 1..Len(p) - 1 : p[i] # None /\ p[i + 1] = ApplyDelta(p[i], ds[i])
    /\ p[Len(p)] = None \/ Len(p) = k + 1

LEMMA AdvancesAlong ==
    ASSUME NEW k \in Nat, NEW s, NEW ds, NEW p, Along(p, k, s, ds)
    PROVE  Along(Advance(p, ds[k + 1]), k + 1, s, ds)
<1>1. Last(p) = p[Len(p)]
  BY DEF Last
<1>2. CASE Last(p) = None
  <2>1. Advance(p, ds[k + 1]) = p
    BY <1>2 DEF Advance
  <2>2. Len(p) \in 1..(k + 1) + 1
    BY DEF Along
  <2>3. Along(p, k + 1, s, ds)
    BY <1>1, <1>2, <2>2, Zenon DEF Along
  <2> QED
    BY <2>1, <2>3
<1>3. CASE Last(p) # None
  <2> DEFINE g == Append(p, ApplyDelta(p[Len(p)], ds[k + 1]))
  <2>1. Advance(p, ds[k + 1]) = g
    BY <1>1, <1>3 DEF Advance
  <2>2. IsSequence(p) /\ Len(p) = k + 1 /\ DOMAIN p = 1..k + 1
    BY <1>1, <1>3, SequenceDomain DEF Along
  <2>3. /\ IsSequence(g) /\ Len(g) = k + 2
        /\ \A i \in 1..k + 1 : g[i] = p[i]
        /\ g[k + 2] = ApplyDelta(p[k + 1], ds[k + 1])
    <3> HIDE DEF g
    <3>1. /\ IsSequence(g) /\ Len(g) = Len(p) + 1
          /\ \A i \in DOMAIN p : g[i] = p[i]
          /\ g[Len(p) + 1] = ApplyDelta(p[Len(p)], ds[k + 1])
      BY <2>2, OneAppended DEF g, WithOne
    <3>2. Len(p) + 1 = k + 2
      BY <2>2
    <3> QED
      BY <2>2, <3>1, <3>2
  <2> HIDE DEF g
  <2>4. g[1] = s
    BY <2>3 DEF Along
  <2>5. ASSUME NEW i \in 1..k + 1
        PROVE  g[i] # None /\ g[i + 1] = ApplyDelta(g[i], ds[i])
    <3>1. CASE i = k + 1
      BY <1>1, <1>3, <2>2, <2>3, <3>1
    <3>2. CASE i # k + 1
      <4>1. i \in 1..k /\ i + 1 \in 1..k + 1 /\ i \in 1..Len(p) - 1
        BY <2>2, <3>2
      <4>2. p[i] # None /\ p[i + 1] = ApplyDelta(p[i], ds[i])
        BY <4>1 DEF Along
      <4> QED
        BY <2>3, <4>1, <4>2
    <3> QED
      BY <3>1, <3>2
  <2>6. Along(g, k + 1, s, ds)
    BY <2>3, <2>4, <2>5 DEF Along
  <2> QED
    BY <2>1, <2>6
<1> QED
  BY <1>2, <1>3

\* ApplyDeltas gives the states on the way.
LEMMA PathOf ==
    ASSUME NEW s, NEW ds, IsSequence(ds)
    PROVE  Along(ApplyDeltas(s, ds), Len(ds), s, ds)
<1> DEFINE n == Len(ds)
           f == CHOOSE f : FoldsOver(f, 1..n, s, ds)
           S == {k \in Nat : k <= n => Along(f[1..k], k, s, ds)}
<1>1. n \in Nat /\ DOMAIN ds = 1..n
  BY SequenceDomain
<1> HIDE DEF n
<1>2. FoldsOver(f, 1..n, s, ds)
  BY <1>1, FoldExists
<1>3. ApplyDeltas(s, ds) = f[1..n]
  BY <1>1, FoldDefinition
<1> HIDE DEF f
<1>4. 0 \in S
  <2>1. 1..0 = {} /\ {} \in SUBSET (1..n)
    OBVIOUS
  <2>2. f[{}] = <<s>>
    BY <1>2, <2>1 DEF FoldsOver
  <2>3. Along(<<s>>, 0, s, ds)
    BY DEF Along, IsSequence, Range
  <2> QED
    BY <2>1, <2>2, <2>3
<1>5. ASSUME NEW k \in Nat, k \in S
      PROVE  k + 1 \in S
  <2> SUFFICES ASSUME k + 1 <= n
               PROVE  Along(f[1..k + 1], k + 1, s, ds)
    OBVIOUS
  <2>1. Along(f[1..k], k, s, ds)
    BY <1>1, <1>5
  <2>2. Max(1..k + 1) = k + 1
    BY MaxOfLast
  <2>3. (1..k + 1) \ {k + 1} = 1..k /\ 1..k + 1 \in SUBSET (1..n) /\ 1..k + 1 # {}
    BY <1>1
  <2>4. f[1..k + 1] = Advance(f[1..k], ds[k + 1])
    BY <1>2, <2>2, <2>3 DEF FoldsOver
  <2> QED
    BY <2>1, <2>4, AdvancesAlong
<1> HIDE DEF S
<1>6. Nat \subseteq S
  BY <1>4, <1>5, NatSetInduction
<1>7. Along(f[1..n], n, s, ds)
  BY <1>1, <1>6 DEF S
<1> QED
  BY <1>3, <1>7 DEF n

-----------------------------------------------------------------------------
(* What a delta and a commit do to the artifacts *)

IsState(s) == s = [rev |-> s.rev, segs |-> s.segs, arts |-> s.arts]

\* What the delta d may make of an artifact of s, of identity id.
Upserted(s, d, id, a) ==
    /\ d.op = "upsert_artifact" /\ d.artifact # None /\ d.artifact.id = id
    /\ \/ a = d.artifact
       \/ id \in DOMAIN s.arts /\ a = MergeArtifact(s.arts[id], d.artifact)

\* Every artifact was there or is the one the delta brings.
ArtifactsFrom(s, d, t) ==
    \A id \in DOMAIN t.arts :
        \/ id \in DOMAIN s.arts /\ t.arts[id] = s.arts[id]
        \/ Upserted(s, d, id, t.arts[id])

\* Replacing by origin leaves no other artifact of the origin.
ReplacedIn(d, t) ==
    d.op = "upsert_artifact" /\ d.artifact.policy = "replace" /\ HasOrigin(d.artifact) =>
        \A id \in DOMAIN t.arts \ {d.artifact.id} : OriginKey(t.arts[id]) # OriginKey(d.artifact)

LEMMA SegmentsOnly ==
    ASSUME NEW s, IsState(s), NEW g, NEW ms
    PROVE  LET t == WithSegment(s, g, ms) IN IsState(t) /\ t.arts = s.arts
BY DEF IsState, WithSegment

LEMMA UpsertEffect ==
    ASSUME NEW s, IsState(s), NEW d, d.op = "upsert_artifact", d.artifact # None,
           NEW t, t = [s EXCEPT !.arts = WithArtifact(@, d.artifact)]
    PROVE  IsState(t) /\ ArtifactsFrom(s, d, t) /\ ReplacedIn(d, t)
<1> DEFINE new == d.artifact
           gone == ReplacedByOrigin(s.arts, new)
<1>1. IsState(t) /\ t.arts = WithArtifact(s.arts, new)
  BY DEF IsState
<1>2. /\ DOMAIN t.arts = (DOMAIN s.arts \ gone) \cup {new.id}
      /\ \A id \in DOMAIN t.arts : id # new.id => t.arts[id] = s.arts[id]
      /\ t.arts[new.id] = IF new.id \in DOMAIN s.arts \ gone
                          THEN MergeArtifact(s.arts[new.id], new) ELSE new
  BY <1>1 DEF WithArtifact, Without
<1>3. ArtifactsFrom(s, d, t)
  BY <1>2 DEF ArtifactsFrom, Upserted
<1>4. ReplacedIn(d, t)
  BY <1>2 DEF ReplacedIn, ReplacedByOrigin
<1> QED
  BY <1>1, <1>3, <1>4

LEMMA DeltaEffect ==
    ASSUME NEW s, IsState(s), NEW d, NEW t, t = ApplyDelta(s, d), t # None
    PROVE  IsState(t) /\ ArtifactsFrom(s, d, t) /\ ReplacedIn(d, t)
<1>1. DeltaIDsValid(d)
  BY DEF ApplyDelta
<1>2. CASE d.op = "upsert_artifact"
  <2>1. t = IF d.artifact = None THEN None ELSE [s EXCEPT !.arts = WithArtifact(@, d.artifact)]
    BY <1>1, <1>2 DEF ApplyDelta
  <2>2. d.artifact # None /\ t = [s EXCEPT !.arts = WithArtifact(@, d.artifact)]
    BY <2>1
  <2> QED
    BY <1>2, <2>2, UpsertEffect
<1>3. CASE d.op # "upsert_artifact"
  <2>1. ReplacedIn(d, t)
    BY <1>3 DEF ReplacedIn
  <2>2. CASE d.op = "remove_artifact"
    <3>1. t = [s EXCEPT !.arts = Without(@, Given(d.artifactIDs))]
      BY <1>1, <2>2 DEF ApplyDelta
    <3>2. IsState(t) /\ t.arts = Without(s.arts, Given(d.artifactIDs))
      BY <3>1 DEF IsState
    <3> QED
      BY <2>1, <3>2 DEF ArtifactsFrom, Without
  <2>3. CASE d.op = "clear_state"
    <3>1. t = [EmptyState EXCEPT !.rev = s.rev]
      BY <1>1, <2>3 DEF ApplyDelta
    <3>2. IsState(t) /\ t.arts = << >>
      BY <3>1 DEF IsState, EmptyState
    <3> QED
      BY <2>1, <3>2 DEF ArtifactsFrom
  <2>4. CASE d.op \notin {"remove_artifact", "clear_state"}
    <3>1. t = s \/ \E g, ms : t = WithSegment(s, g, ms)
      BY <1>1, <1>3, <2>4 DEF ApplyDelta, RemoveMessages
    <3>2. IsState(t) /\ t.arts = s.arts
      BY <3>1, SegmentsOnly
    <3> QED
      BY <2>1, <3>2 DEF ArtifactsFrom
  <2> QED
    BY <2>2, <2>3, <2>4
<1> QED
  BY <1>2, <1>3

\* A commit keeps the messages and some of the artifacts of the last state on the
\* way, as they are, and their blobs are valid.
LEMMA CheckpointEffect ==
    ASSUME NEW s, NEW ds, NEW profile, NEW q, q = Last(ApplyDeltas(s, ds)), IsState(q),
           NEW t, t = Checkpoint(s, ds, profile).next, t # None
    PROVE  /\ q # None /\ IsState(t) /\ BlobsValid(t) /\ t.segs = q.segs
           /\ \A id \in DOMAIN t.arts : id \in DOMAIN q.arts /\ t.arts[id] = q.arts[id]
<1> DEFINE c == ProjectCheckpoint(q, profile)
           n == EncodeDecode(c, profile)
<1>1. q # None /\ n # None /\ t = [n EXCEPT !.rev = s.rev + 1]
  BY DEF Checkpoint
<1>2. n = c /\ c # None /\ BlobsValid(c)
  BY <1>1 DEF EncodeDecode
<1> HIDE DEF n
<1>3. c = [q EXCEPT !.arts = [id \in {id \in DOMAIN @ : ArtifactShouldPersist(@[id])} |-> @[id]]]
  BY <1>2 DEF ProjectCheckpoint
<1>4. /\ IsState(c) /\ c.segs = q.segs
      /\ c.arts = [id \in {id \in DOMAIN q.arts : ArtifactShouldPersist(q.arts[id])} |-> q.arts[id]]
  BY <1>3 DEF IsState
<1> HIDE DEF c
<1>5. IsState(t) /\ t.arts = c.arts /\ t.segs = c.segs
  BY <1>1, <1>2, <1>4 DEF IsState
<1> QED
  BY <1>1, <1>2, <1>4, <1>5 DEF BlobsValid

-----------------------------------------------------------------------------
(* The invariant *)

\* The blob's object was made of the payload that the blob stands for.
GoodBlob(b) ==
    /\ b.object.object \in DOMAIN taken
    /\ taken[b.object.object] = b.original.chunks
    /\ b.object.content = b.original.chunks

ArtifactOK(id, a) ==
    /\ DOMAIN a = ArtifactFields
    /\ a.id = id
    /\ a.blob # None => GoodBlob(a.blob)

ArtifactsOK(arts) == \A id \in DOMAIN arts : ArtifactOK(id, arts[id])

\* Objects are numbered as they come, and there is room for one more until a
\* call has stored its own.
StorageOK ==
    /\ IsSequence(objects) /\ IsSequence(taken)
    /\ Len(taken) = Len(objects)
    /\ Len(objects) <= MaxObjects
    /\ call.pc \in {"select", "put"} => Len(objects) < MaxObjects

IsOffload(c) ==
    c = [kind |-> c.kind, target |-> c.target, source |-> c.source, content |-> c.content,
         preview |-> c.preview, stored |-> c.stored, pc |-> c.pc]

\* A call between two of its steps: what it knows is what its target says and
\* what the store has.
CallOK ==
    \/ call = NoOffload
    \/ /\ IsOffload(call)
       /\ call.pc \in {"select", "put", "build"}
       /\ call.kind = "artifact" =>
            /\ call.target \in Artifacts /\ call.target.blob = None
            /\ call.source = ArtifactRef(call.target)
            /\ call.content = call.target.chunks
       /\ call.pc \in {"put", "build"} => call.preview \in Previews
       /\ call.pc = "build" =>
            /\ Len(objects) > 0
            /\ call.stored = Descriptor(Len(objects), call.content, {call.source})
            /\ taken[Len(objects)] = call.content

\* The host knows every object but the one the call in progress has just stored.
ObjectsKnown ==
    \A o \in DOMAIN objects : o \in reported \/ (call.pc = "build" /\ o = call.stored.object)

HandOK ==
    /\ hand \subseteq Offloadable
    /\ \A a \in hand : a.blob # None => GoodBlob(a.blob)

StateOK == IsState(state) /\ ArtifactsOK(state.arts) /\ BlobsValid(state)

ReadOK == read # None => read.object \in DOMAIN taken /\ read.content = taken[read.object]

Inv ==
    /\ StorageOK
    /\ CallOK
    /\ ObjectsKnown
    /\ HandOK
    /\ StateOK
    /\ ReadOK
    /\ ReplacedByOriginGone

-----------------------------------------------------------------------------
(* A commit keeps it *)

LEMMA MergedOK ==
    ASSUME NEW id, NEW old, NEW new, ArtifactOK(id, old), ArtifactOK(id, new)
    PROVE  ArtifactOK(id, MergeArtifact(old, new))
<1>1. ArtifactOK(id, AppendArtifactPayload(old, new))
  <2> DEFINE m == AppendArtifactPayload(old, new)
  <2>1. DOMAIN m = ArtifactFields /\ m.id = new.id /\ m.blob = new.blob
    BY DEF AppendArtifactPayload, ArtifactOK, ArtifactFields
  <2> QED
    BY <2>1 DEF ArtifactOK
<1> QED
  BY <1>1 DEF MergeArtifact

\* Deltas bring good artifacts only.
BatchOK(ds) ==
    /\ IsSequence(ds)
    /\ \A k \in DOMAIN ds : ds[k].artifact # None => ArtifactOK(ds[k].artifact.id, ds[k].artifact)

LEMMA DeltaKeepsArtifacts ==
    ASSUME NEW s, IsState(s), ArtifactsOK(s.arts), NEW d,
           d.artifact # None => ArtifactOK(d.artifact.id, d.artifact),
           NEW t, t = ApplyDelta(s, d), t # None
    PROVE  IsState(t) /\ ArtifactsOK(t.arts)
<1>1. IsState(t) /\ ArtifactsFrom(s, d, t)
  BY DeltaEffect
<1>2. ASSUME NEW id \in DOMAIN t.arts
      PROVE  ArtifactOK(id, t.arts[id])
  <2>1. CASE id \in DOMAIN s.arts /\ t.arts[id] = s.arts[id]
    BY <2>1 DEF ArtifactsOK
  <2>2. CASE Upserted(s, d, id, t.arts[id])
    <3>1. ArtifactOK(id, d.artifact)
      BY <2>2 DEF Upserted
    <3>2. id \in DOMAIN s.arts => ArtifactOK(id, MergeArtifact(s.arts[id], d.artifact))
      BY <3>1, MergedOK DEF ArtifactsOK
    <3> QED
      BY <2>2, <3>1, <3>2 DEF Upserted
  <2> QED
    BY <1>1, <2>1, <2>2 DEF ArtifactsFrom
<1> QED
  BY <1>1, <1>2 DEF ArtifactsOK

\* All the states on the way of a batch that is not refused.
Whole(p, s, ds) ==
    /\ Along(p, Len(ds), s, ds)
    /\ Len(p) = Len(ds) + 1
    /\ \A i \in 1..Len(ds) + 1 : p[i] # None /\ IsState(p[i]) /\ ArtifactsOK(p[i].arts)

LEMMA PathArtifacts ==
    ASSUME NEW s, IsState(s), ArtifactsOK(s.arts), NEW ds, BatchOK(ds),
           NEW p, p = ApplyDeltas(s, ds), Last(p) # None
    PROVE  Whole(p, s, ds)
<1> DEFINE n == Len(ds)
           S == {i \in Nat : i <= n => IsState(p[i + 1]) /\ ArtifactsOK(p[i + 1].arts)}
<1>1. IsSequence(ds) /\ n \in Nat /\ DOMAIN ds = 1..n
  BY SequenceDomain DEF BatchOK
<1>2. Along(p, n, s, ds)
  BY <1>1, PathOf
<1>3. p[Len(p)] # None
  BY DEF Last
<1> HIDE DEF n
<1>4. /\ Len(p) = n + 1 /\ p[1] = s
      /\ \A i \in 1..n : p[i] # None /\ p[i + 1] = ApplyDelta(p[i], ds[i])
  BY <1>1, <1>2, <1>3 DEF Along
<1>5. \A i \in 1..n + 1 : p[i] # None
  BY <1>1, <1>3, <1>4
<1>6. 0 \in S
  BY <1>4
<1>7. ASSUME NEW i \in Nat, i \in S
      PROVE  i + 1 \in S
  <2> SUFFICES ASSUME i + 1 <= n
               PROVE  IsState(p[i + 1 + 1]) /\ ArtifactsOK(p[i + 1 + 1].arts)
    OBVIOUS
  <2>1. i + 1 \in 1..n /\ i + 1 + 1 \in 1..n + 1 /\ i <= n
    BY <1>1
  <2>2. IsState(p[i + 1]) /\ ArtifactsOK(p[i + 1].arts)
    BY <1>7, <2>1
  <2>3. p[i + 1 + 1] = ApplyDelta(p[i + 1], ds[i + 1]) /\ p[i + 1 + 1] # None
    BY <1>4, <1>5, <2>1
  <2>4. ds[i + 1].artifact # None => ArtifactOK(ds[i + 1].artifact.id, ds[i + 1].artifact)
    BY <1>1, <2>1 DEF BatchOK
  <2> QED
    BY <2>2, <2>3, <2>4, DeltaKeepsArtifacts
<1> HIDE DEF S
<1>8. Nat \subseteq S
  BY <1>6, <1>7, NatSetInduction
<1>9. ASSUME NEW i \in 1..n + 1
      PROVE  IsState(p[i]) /\ ArtifactsOK(p[i].arts)
  <2>1. i - 1 \in Nat /\ i - 1 <= n /\ (i - 1) + 1 = i
    BY <1>1
  <2>2. i - 1 \in S
    BY <1>8, <2>1
  <2> QED
    BY <2>1, <2>2 DEF S
<1> QED
  BY <1>2, <1>4, <1>5, <1>9 DEF Whole, n

\* From the delta that replaced by origin on, an artifact of that origin is there
\* only if a delta on the way put it there.
LEMMA ReplacedOnTheWay ==
    ASSUME NEW s, NEW ds, IsSequence(ds), NEW p, Whole(p, s, ds), NEW k \in DOMAIN ds,
           ds[k].op = "upsert_artifact", ds[k].artifact.policy = "replace", HasOrigin(ds[k].artifact)
    PROVE  \A id \in DOMAIN p[Len(ds) + 1].arts \ {ds[k].artifact.id} :
              OriginKey(p[Len(ds) + 1].arts[id]) = OriginKey(ds[k].artifact) =>
                 \E j \in k+1..Len(ds) : ds[j].op = "upsert_artifact" /\ ds[j].artifact.id = id
<1> DEFINE n == Len(ds)
           new == ds[k].artifact
           Q(m) == \A id \in DOMAIN p[m].arts \ {new.id} :
                      OriginKey(p[m].arts[id]) = OriginKey(new) =>
                         \E j \in k+1..m-1 : ds[j].op = "upsert_artifact" /\ ds[j].artifact.id = id
           S == {i \in Nat : k + 1 + i <= n + 1 => Q(k + 1 + i)}
<1>1. n \in Nat /\ k \in 1..n
  BY SequenceDomain
<1> HIDE DEF n
<1>2. \A i \in 1..n : p[i + 1] = ApplyDelta(p[i], ds[i])
  BY <1>1 DEF Whole, Along, n
<1>3. \A i \in 1..n + 1 : p[i] # None /\ IsState(p[i])
  BY DEF Whole, n
<1>4. \A i \in 1..n : ArtifactsFrom(p[i], ds[i], p[i + 1]) /\ ReplacedIn(ds[i], p[i + 1])
  <2> TAKE i \in 1..n
  <2>1. i \in 1..n + 1 /\ i + 1 \in 1..n + 1
    BY <1>1
  <2> QED
    BY <1>2, <1>3, <2>1, DeltaEffect
<1>5. 0 \in S
  <2>1. ReplacedIn(ds[k], p[k + 1])
    BY <1>1, <1>4
  <2>2. Q(k + 1)
    BY <2>1 DEF ReplacedIn
  <2>3. k + 1 + 0 = k + 1
    BY <1>1
  <2> HIDE DEF Q
  <2> QED
    BY <2>2, <2>3
<1>6. ASSUME NEW i \in Nat, i \in S
      PROVE  i + 1 \in S
  <2> DEFINE m == k + 1 + i
  <2> SUFFICES ASSUME m + 1 <= n + 1
               PROVE  Q(m + 1)
    <3>1. k + 1 + (i + 1) = m + 1
      BY <1>1
    <3> HIDE DEF Q, m
    <3> QED
      BY <3>1
  <2>1. m \in 1..n /\ m + 1 - 1 = m /\ m \in k+1..m /\ k+1..m-1 \subseteq k+1..m
    BY <1>1
  <2>2. Q(m)
    <3> HIDE DEF Q
    <3> QED
      BY <1>1, <1>6, <2>1
  <2> HIDE DEF m
  <2>3. ASSUME NEW id \in DOMAIN p[m + 1].arts \ {new.id}, OriginKey(p[m + 1].arts[id]) = OriginKey(new)
        PROVE  \E j \in k+1..m : ds[j].op = "upsert_artifact" /\ ds[j].artifact.id = id
    <3>1. CASE id \in DOMAIN p[m].arts /\ p[m + 1].arts[id] = p[m].arts[id]
      BY <2>1, <2>2, <2>3, <3>1
    <3>2. CASE Upserted(p[m], ds[m], id, p[m + 1].arts[id])
      BY <2>1, <3>2 DEF Upserted
    <3> QED
      BY <1>4, <2>1, <2>3, <3>1, <3>2 DEF ArtifactsFrom
  <2> QED
    BY <2>1, <2>3
<1> HIDE DEF S
<1>7. Nat \subseteq S
  BY <1>5, <1>6, NatSetInduction
<1>8. Q(n + 1)
  <2>1. n - k \in Nat /\ k + 1 + (n - k) = n + 1
    BY <1>1
  <2>2. n - k \in S
    BY <1>7, <2>1
  <2> HIDE DEF Q
  <2> QED
    BY <1>1, <2>1, <2>2 DEF S
<1>9. n + 1 - 1 = n
  BY <1>1
<1> QED
  BY <1>8, <1>9 DEF n

\* What is sent has the artifacts of the host's batch, also over the wire.
LEMMA SentBatch ==
    ASSUME HandOK, NEW ds \in Batches(hand), NEW sent,
           sent = ds \/ sent = [k \in DOMAIN ds |-> OverWire(ds[k])]
    PROVE  BatchOK(sent)
<1>1. /\ IsSequence(ds)
      /\ \A k \in DOMAIN ds :
           /\ DOMAIN ds[k] = DeltaFields
           /\ ds[k].artifact # None =>
                /\ DOMAIN ds[k].artifact = ArtifactFields
                /\ \/ ds[k].artifact.blob = None
                   \/ \E a \in hand : a.blob = ds[k].artifact.blob
  BY BatchesAssumption DEF HandOK, IsSequence
<1>2. BatchOK(ds)
  BY <1>1 DEF BatchOK, ArtifactOK, HandOK
<1>3. CASE sent = [k \in DOMAIN ds |-> OverWire(ds[k])]
  <2>1. Len(ds) \in Nat /\ DOMAIN ds = 1..Len(ds)
    BY <1>1, SequenceDomain
  <2>2. IsSequence(sent)
    BY <1>3, <2>1 DEF IsSequence, Range
  <2>3. \A k \in DOMAIN ds : OverWire(ds[k]).artifact = ds[k].artifact
    BY <1>1 DEF OverWire, DeltaFields
  <2> QED
    BY <1>2, <1>3, <2>2, <2>3 DEF BatchOK
<1> QED
  BY <1>2, <1>3

LEMMA CommitStateInv ==
    ASSUME Inv, CommitState
    PROVE  Inv'
<1>1. PICK ds \in Batches(hand), wire \in BOOLEAN :
         LET sent == IF wire THEN [k \in DOMAIN ds |-> OverWire(ds[k])] ELSE ds
             commit == Checkpoint(state, sent, Profile)
         IN  /\ commit.next # None
             /\ state' = commit.next
             /\ last' = [deltas |-> sent, path |-> commit.path]
             /\ read' = None
             /\ UNCHANGED <<call, storage, reported, hand>>
  BY DEF CommitState
<1> DEFINE sent == IF wire THEN [k \in DOMAIN ds |-> OverWire(ds[k])] ELSE ds
           p == ApplyDeltas(state, sent)
           n == Len(sent)
<1>2. BatchOK(sent) /\ IsSequence(sent)
  BY SentBatch DEF Inv, BatchOK
<1>3. /\ state' # None /\ state' = Checkpoint(state, sent, Profile).next
      /\ last'.deltas = sent
      /\ read' = None
      /\ UNCHANGED <<call, objects, taken, reported, hand>>
  BY <1>1 DEF storage
<1> HIDE DEF sent
<1>4. Last(p) # None
  BY <1>3 DEF Checkpoint
<1>5. Whole(p, state, sent)
  BY <1>2, <1>4, PathArtifacts DEF Inv, StateOK
<1> HIDE DEF p
<1>6. Last(p) = p[n + 1] /\ n \in Nat
  BY <1>2, <1>5, SequenceDomain DEF Whole, Last
<1>7. IsState(p[n + 1]) /\ ArtifactsOK(p[n + 1].arts)
  BY <1>5, <1>6 DEF Whole
<1>8. /\ IsState(state') /\ BlobsValid(state')
      /\ \A id \in DOMAIN state'.arts : id \in DOMAIN p[n + 1].arts /\ state'.arts[id] = p[n + 1].arts[id]
  BY <1>3, <1>6, <1>7, CheckpointEffect DEF p
<1>9. StateOK'
  BY <1>3, <1>7, <1>8 DEF StateOK, ArtifactsOK, ArtifactOK, GoodBlob
<1>10. ReplacedByOriginGone'
  <2>1. ASSUME NEW k \in DOMAIN sent, sent[k].op = "upsert_artifact",
               sent[k].artifact.policy = "replace", HasOrigin(sent[k].artifact),
               NEW id \in DOMAIN state'.arts \ {sent[k].artifact.id},
               OriginKey(state'.arts[id]) = OriginKey(sent[k].artifact)
        PROVE  \E j \in k+1..n : sent[j].op = "upsert_artifact" /\ sent[j].artifact.id = id
    BY <1>2, <1>5, <1>8, <2>1, ReplacedOnTheWay
  <2> QED
    BY <1>3, <2>1 DEF ReplacedByOriginGone
<1>11. (StorageOK /\ CallOK /\ ObjectsKnown /\ HandOK /\ ReadOK)'
  BY <1>3 DEF Inv, StorageOK, CallOK, ObjectsKnown, HandOK, ReadOK, GoodBlob
<1> QED
  BY <1>9, <1>10, <1>11 DEF Inv

-----------------------------------------------------------------------------
(* Every other step keeps it *)

LEMMA InitInv ==
    ASSUME Init
    PROVE  Inv
<1>1. StorageOK
  BY MaxObjectsAssumption DEF Init, StorageOK, IsSequence, NoOffload
<1>2. CallOK /\ ObjectsKnown
  BY DEF Init, CallOK, ObjectsKnown
<1>3. HandOK /\ ReadOK /\ ReplacedByOriginGone
  BY DEF Init, HandOK, ReadOK, ReplacedByOriginGone, NoCommit
<1>4. StateOK
  BY DEF Init, StateOK, IsState, ArtifactsOK, BlobsValid, EmptyState
<1> QED
  BY <1>1, <1>2, <1>3, <1>4 DEF Inv

\* Without a commit there is nothing that was replaced.
LEMMA NothingCommitted ==
    ASSUME last = NoCommit
    PROVE  ReplacedByOriginGone
BY DEF NoCommit, ReplacedByOriginGone

LEMMA RoomLeft ==
    ASSUME Inv, Cardinality(DOMAIN objects) < MaxObjects
    PROVE  Len(objects) < MaxObjects
<1>1. Len(objects) \in Nat /\ DOMAIN objects = 1..Len(objects)
  BY SequenceDomain DEF Inv, StorageOK
<1>2. Cardinality(1..Len(objects)) = Len(objects)
  <2> DEFINE n == Len(objects)
  <2>1. n \in Nat /\ n \in Int /\ 1 \in Int
    BY <1>1
  <2> HIDE DEF n
  <2>2. Cardinality(1..n) = IF 1 > n THEN 0 ELSE n - 1 + 1
    BY <2>1, FS_Interval
  <2>3. Cardinality(1..n) = n
    BY <2>1, <2>2
  <2> QED
    BY <2>3 DEF n
<1> QED
  BY <1>1, <1>2

\* Either kind of offload begins.
LEMMA OffloadInv ==
    ASSUME Inv, call = NoOffload, Cardinality(DOMAIN objects) < MaxObjects,
           NEW kind \in {"artifact", "argument"}, NEW target, NEW origin, NEW bytes,
           kind = "artifact" => /\ target \in Artifacts /\ target.blob = None
                                /\ origin = ArtifactRef(target) /\ bytes = target.chunks,
           Offload(kind, target, origin, bytes)
    PROVE  Inv'
<1>1. /\ UNCHANGED <<state, objects, taken, reported, hand>>
      /\ read' = None /\ last' = NoCommit
      /\ call' = [kind |-> kind, target |-> target, source |-> origin, content |-> bytes,
                  preview |-> None, stored |-> None, pc |-> "select"]
  BY DEF Offload, storage
<1>2. StorageOK'
  BY <1>1, RoomLeft DEF Inv, StorageOK
<1>3. CallOK'
  BY <1>1 DEF CallOK, IsOffload
<1>4. ObjectsKnown'
  BY <1>1 DEF Inv, ObjectsKnown, NoOffload
<1>5. (HandOK /\ StateOK /\ ReadOK)'
  BY <1>1 DEF Inv, HandOK, StateOK, ReadOK, ArtifactsOK, ArtifactOK, GoodBlob
<1>6. ReplacedByOriginGone'
  BY <1>1, NothingCommitted DEF NoCommit, ReplacedByOriginGone
<1> QED
  BY <1>2, <1>3, <1>4, <1>5, <1>6 DEF Inv

LEMMA ProjectArtifactInv ==
    ASSUME Inv, ProjectArtifact
    PROVE  Inv'
BY OffloadInv DEF ProjectArtifact

LEMMA ProjectHistoricalArgumentsInv ==
    ASSUME Inv, ProjectHistoricalArguments
    PROVE  Inv'
BY OffloadInv DEF ProjectHistoricalArguments

\* A call returns, naming what it stored and giving the host good artifacts.
LEMMA ReturnInv ==
    ASSUME Inv, NEW told, NEW artifacts, Return(told, artifacts),
           call.pc = "build" => call.stored.object \in told,
           artifacts \subseteq Offloadable,
           \A a \in artifacts : a.blob # None => GoodBlob(a.blob)
    PROVE  Inv'
<1>1. /\ UNCHANGED <<state, last, objects, taken, read>>
      /\ call' = NoOffload
      /\ reported' = reported \cup told
      /\ hand' = hand \cup artifacts
  BY DEF Return, conversation, storage
<1>2. StorageOK' /\ CallOK'
  BY <1>1 DEF Inv, StorageOK, CallOK, NoOffload
<1>3. ObjectsKnown'
  BY <1>1 DEF Inv, ObjectsKnown
<1>4. HandOK'
  BY <1>1 DEF Inv, HandOK, GoodBlob
<1>5. (StateOK /\ ReadOK /\ ReplacedByOriginGone)'
  BY <1>1 DEF Inv, StateOK, ReadOK, ReplacedByOriginGone, ArtifactsOK, ArtifactOK, GoodBlob
<1> QED
  BY <1>2, <1>3, <1>4, <1>5 DEF Inv

LEMMA SelectBlobInv ==
    ASSUME Inv, SelectBlob
    PROVE  Inv'
<1> call.pc = "select"
  BY DEF SelectBlob
<1>1. call.pc = "select" /\ call # NoOffload
  BY DEF NoOffload
<1>2. CASE Return({}, {})
  BY <1>1, <1>2, ReturnInv
<1>3. CASE Return({}, IF call.kind = "artifact" THEN {call.target} ELSE {})
  <2>1. call.kind = "artifact" => call.target \in Offloadable /\ call.target.blob = None
    BY <1>1 DEF Inv, CallOK, Offloadable
  <2> QED
    BY <1>1, <1>3, <2>1, ReturnInv
<1>4. ASSUME NEW q \in Previews, call' = [call EXCEPT !.preview = q, !.pc = "put"],
             UNCHANGED <<conversation, storage, reported, hand, read>>
      PROVE  Inv'
  <2>1. UNCHANGED <<state, last, objects, taken, reported, hand, read>>
    BY <1>4 DEF conversation, storage
  <2>2. /\ IsOffload(call') /\ call'.pc = "put" /\ call'.preview = q
        /\ call'.kind = call.kind /\ call'.target = call.target /\ call'.source = call.source
        /\ call'.content = call.content
    BY <1>1, <1>4 DEF Inv, CallOK, IsOffload
  <2>3. StorageOK'
    BY <1>1, <2>1, <2>2 DEF Inv, StorageOK
  <2>4. CallOK'
    BY <1>1, <2>1, <2>2 DEF Inv, CallOK
  <2>5. ObjectsKnown'
    BY <1>1, <2>1, <2>2 DEF Inv, ObjectsKnown
  <2>6. (HandOK /\ StateOK /\ ReadOK /\ ReplacedByOriginGone)'
    BY <2>1 DEF Inv, HandOK, StateOK, ReadOK, ReplacedByOriginGone, ArtifactsOK, ArtifactOK, GoodBlob
  <2> QED
    BY <2>3, <2>4, <2>5, <2>6 DEF Inv
<1> QED
  BY <1>2, <1>3, <1>4 DEF SelectBlob

\* What is in the store stays there.
LEMMA StoredInv ==
    ASSUME Inv, NEW bytes, objects' = Append(objects, bytes),
           NEW payload, taken' = Append(taken, payload)
    PROVE  /\ Len(objects) \in Nat /\ DOMAIN objects = 1..Len(objects) /\ DOMAIN taken = 1..Len(objects)
           /\ IsSequence(objects') /\ Len(objects') = Len(objects) + 1
           /\ IsSequence(taken') /\ Len(taken') = Len(objects) + 1
           /\ DOMAIN objects' = 1..Len(objects) + 1 /\ DOMAIN taken' = 1..Len(objects) + 1
           /\ \A o \in DOMAIN taken : taken'[o] = taken[o]
           /\ taken'[Len(objects) + 1] = payload
<1>1. IsSequence(objects) /\ IsSequence(taken) /\ Len(taken) = Len(objects)
  BY DEF Inv, StorageOK
<1>2. Len(objects) \in Nat /\ DOMAIN objects = 1..Len(objects) /\ DOMAIN taken = 1..Len(objects)
  BY <1>1, SequenceDomain
<1>3. IsSequence(objects') /\ Len(objects') = Len(objects) + 1
  BY <1>1, OneAppended DEF WithOne
<1>4. /\ IsSequence(taken') /\ Len(taken') = Len(taken) + 1
      /\ \A o \in DOMAIN taken : taken'[o] = taken[o]
      /\ taken'[Len(taken) + 1] = payload
  <2>1. WithOne(taken, payload, taken')
    BY <1>1, OneAppended
  <2> QED
    BY <2>1 DEF WithOne
<1>5. DOMAIN objects' = 1..Len(objects) + 1 /\ DOMAIN taken' = 1..Len(objects) + 1
  BY <1>1, <1>3, <1>4, SequenceDomain
<1> QED
  BY <1>1, <1>2, <1>3, <1>4, <1>5

LEMMA PutBlobInv ==
    ASSUME Inv, PutBlob
    PROVE  Inv'
<1> call.pc = "put"
  BY DEF PutBlob
<1>1. call.pc = "put" /\ call # NoOffload
  BY DEF NoOffload
<1>2. CASE Return({}, {})
  BY <1>1, <1>2, ReturnInv
<1>3. CASE ~Return({}, {})
  <2> DEFINE n == Len(objects) + 1
             receipt(bytes) == Descriptor(n, bytes, {call.source})
  <2>1. PICK bytes :
           /\ objects' = Append(objects, bytes)
           /\ taken' = Append(taken, call.content)
           /\ UNCHANGED <<conversation, hand, read>>
           /\ \/ /\ ReceiptValid(receipt(bytes))
                 /\ call' = [call EXCEPT !.stored = receipt(bytes), !.pc = "build"]
                 /\ UNCHANGED reported
              \/ /\ call' = NoOffload
                 /\ reported' = reported \cup {n}
    BY <1>3 DEF PutBlob
  <2>2. UNCHANGED <<state, last, hand, read>>
    BY <2>1 DEF conversation
  <2>3. /\ n - 1 \in Nat /\ n - 1 = Len(objects)
        /\ DOMAIN objects = 1..n - 1 /\ DOMAIN taken = 1..n - 1
        /\ IsSequence(objects') /\ Len(objects') = n
        /\ IsSequence(taken') /\ Len(taken') = n
        /\ DOMAIN objects' = 1..n /\ DOMAIN taken' = 1..n
        /\ \A o \in DOMAIN taken : taken'[o] = taken[o]
        /\ taken'[n] = call.content
    BY <2>1, StoredInv
  <2>4. n <= MaxObjects
    BY <1>1, <2>3, MaxObjectsAssumption DEF Inv, StorageOK
  <2> HIDE DEF n
  <2>5. ASSUME NEW b, GoodBlob(b)
        PROVE  GoodBlob(b)'
    BY <2>3, <2>5 DEF GoodBlob
  <2>6. HandOK'
    BY <2>2, <2>5 DEF Inv, HandOK
  <2>7. StateOK'
    BY <2>2, <2>5 DEF Inv, StateOK, ArtifactsOK, ArtifactOK
  <2>8. ReadOK' /\ ReplacedByOriginGone'
    BY <2>2, <2>3 DEF Inv, ReadOK, ReplacedByOriginGone
  <2>9. CASE /\ ReceiptValid(receipt(bytes))
             /\ call' = [call EXCEPT !.stored = receipt(bytes), !.pc = "build"]
             /\ UNCHANGED reported
    <3>1. receipt(bytes) = Descriptor(n, call.content, {call.source})
      BY <2>9 DEF ReceiptValid, Descriptor
    <3>2. /\ IsOffload(call') /\ call'.pc = "build" /\ call'.preview = call.preview
          /\ call'.kind = call.kind /\ call'.target = call.target /\ call'.source = call.source
          /\ call'.content = call.content
          /\ call'.stored = Descriptor(n, call.content, {call.source})
      BY <1>1, <2>9, <3>1 DEF Inv, CallOK, IsOffload
    <3>3. StorageOK'
      BY <2>3, <2>4, <3>2 DEF StorageOK
    <3>4. CallOK'
      BY <1>1, <2>3, <3>2 DEF Inv, CallOK
    <3>5. call'.stored.object = n
      BY <3>2 DEF Descriptor
    <3>6. ObjectsKnown'
      BY <1>1, <2>3, <2>9, <3>2, <3>5 DEF Inv, ObjectsKnown
    <3> QED
      BY <2>6, <2>7, <2>8, <3>3, <3>4, <3>6 DEF Inv
  <2>10. CASE call' = NoOffload /\ reported' = reported \cup {n}
    <3>1. StorageOK' /\ CallOK'
      BY <2>3, <2>4, <2>10 DEF StorageOK, CallOK, NoOffload
    <3>2. ObjectsKnown'
      BY <1>1, <2>3, <2>10 DEF Inv, ObjectsKnown
    <3> QED
      BY <2>6, <2>7, <2>8, <3>1, <3>2 DEF Inv
  <2> QED
    BY <2>1, <2>9, <2>10
<1> QED
  BY <1>2, <1>3

LEMMA BuildInv ==
    ASSUME Inv, Build
    PROVE  Inv'
<1>1. call.pc = "build" /\ call # NoOffload
  BY DEF Build, NoOffload
<1>2. CASE Return(CleanupIntent(call.stored), {})
  BY <1>1, <1>2, ReturnInv DEF CleanupIntent
<1>3. CASE Return({call.stored.object},
                  IF call.kind = "artifact"
                  THEN {ProjectedArtifact(call.target, call.stored, call.preview)} ELSE {})
  <2> DEFINE a == ProjectedArtifact(call.target, call.stored, call.preview)
             n == Len(objects)
  <2>1. ASSUME call.kind = "artifact"
        PROVE  a \in Offloadable /\ GoodBlob(a.blob)
    <3>1. /\ call.target \in Artifacts /\ call.target.blob = None
          /\ call.content = call.target.chunks /\ call.preview \in Previews
          /\ n > 0 /\ taken[n] = call.content
          /\ call.stored = Descriptor(n, call.target.chunks, {ArtifactRef(call.target)})
      BY <1>1, <2>1 DEF Inv, CallOK
    <3>2. n \in Nat /\ n \in 1..MaxObjects /\ n \in DOMAIN taken
      BY <3>1, SequenceDomain, MaxObjectsAssumption DEF Inv, StorageOK
    <3>3. a \in Offloadable
      <4> DEFINE whole == {b \in Artifacts : b.blob = None}
                 made(b, m, q) == ProjectedArtifact(b, Descriptor(m, b.chunks, {ArtifactRef(b)}), q)
      <4>1. call.target \in whole /\ a = made(call.target, n, call.preview)
        BY <3>1
      <4> HIDE DEF a, n, made, whole
      <4>2. a \in {made(b, m, q) : b \in whole, m \in 1..MaxObjects, q \in Previews}
        BY <3>1, <3>2, <4>1
      <4> QED
        BY <4>2 DEF Offloadable, whole, made
    <3>4. DOMAIN call.target = ArtifactFields
      BY <3>1, ArtifactsAssumption
    <3>5. a.blob = [object |-> call.stored, original |-> ArtifactRef(call.target),
                    preview |-> Digest(call.preview.chunks)]
      BY <3>4 DEF ProjectedArtifact, ArtifactFields
    <3>6. /\ a.blob.object.object = n /\ a.blob.object.content = call.target.chunks
          /\ a.blob.original.chunks = call.target.chunks
      BY <3>1, <3>5 DEF Descriptor, Digest, ArtifactRef
    <3> QED
      BY <3>1, <3>2, <3>3, <3>6 DEF GoodBlob
  <2> HIDE DEF a
  <2> QED
    BY <1>1, <1>3, <2>1, ReturnInv DEF a
<1> QED
  BY <1>2, <1>3 DEF Build

LEMMA ResolveInv ==
    ASSUME Inv, Resolve
    PROVE  Inv'
<1>1. UNCHANGED <<state, call, objects, taken, reported, hand>> /\ last' = NoCommit
  BY DEF Resolve, storage
<1>2. PICK id \in DOMAIN state.arts : \E got :
         /\ state.arts[id].blob # None
         /\ ResolveBlob(state.arts[id].blob.object, got)
         /\ read' = [object |-> state.arts[id].blob.object.object, content |-> got]
  BY DEF Resolve
<1>3. GoodBlob(state.arts[id].blob)
  BY <1>2 DEF Inv, StateOK, ArtifactsOK, ArtifactOK
<1>4. ReadOK'
  BY <1>1, <1>2, <1>3 DEF ReadOK, GoodBlob, ResolveBlob, Digest
<1>5. (StorageOK /\ CallOK /\ ObjectsKnown /\ HandOK /\ StateOK)'
  BY <1>1 DEF Inv, StorageOK, CallOK, ObjectsKnown, HandOK, StateOK, ArtifactsOK, ArtifactOK, GoodBlob
<1>6. ReplacedByOriginGone'
  BY <1>1, NothingCommitted DEF NoCommit, ReplacedByOriginGone
<1> QED
  BY <1>4, <1>5, <1>6 DEF Inv

LEMMA NextInv ==
    ASSUME Inv, [Next]_vars
    PROVE  Inv'
<1>1. CASE UNCHANGED vars
  BY <1>1 DEF vars, Inv, StorageOK, CallOK, ObjectsKnown, HandOK, StateOK, ReadOK, ReplacedByOriginGone,
              ArtifactsOK, ArtifactOK, GoodBlob
<1> QED
  BY <1>1, ProjectArtifactInv, ProjectHistoricalArgumentsInv, SelectBlobInv, PutBlobInv, BuildInv,
     CommitStateInv, ResolveInv DEF Next

-----------------------------------------------------------------------------
(* The theorems *)

\* Every reachable state satisfies the inductive invariant.
THEOREM InvHolds == Spec => []Inv
<1>1. Init => Inv
  BY InitInv
<1>2. Inv /\ [Next]_vars => Inv'
  BY NextInv
<1> QED
  BY <1>1, <1>2, PTL DEF Spec

\* Once ProjectArtifact or ProjectHistoricalArguments has returned, wherever it
\* failed, the host has been told of every object the store gave a receipt of.
THEOREM NothingStoredForgotten == Spec => []OffloadsReported
<1>1. Inv => OffloadsReported
  BY DEF Inv, ObjectsKnown, OffloadsReported, NoOffload
<1> QED
  BY <1>1, InvHolds, PTL

\* A committed blob is the payload of the artifact that has it, and a payload
\* that ResolveBlob accepts is the one that was moved to the store, whatever the
\* store wrote or returned and whatever the deltas of any batch did.
THEOREM BlobsAreOriginals == Spec => []BlobsStandForOriginals
<1>1. Inv => BlobsStandForOriginals
  BY DEF Inv, StateOK, ArtifactsOK, ArtifactOK, GoodBlob, BlobsValid, ArtifactBlobValid, ReadOK,
         BlobsStandForOriginals
<1> QED
  BY <1>1, InvHolds, PTL

\* A batch of any length that replaces by origin leaves no other artifact of that
\* origin, unless a later delta of the batch brought it.
THEOREM OriginsReplaced == Spec => []ReplacedByOriginGone
<1>1. Inv => ReplacedByOriginGone
  BY DEF Inv
<1> QED
  BY <1>1, InvHolds, PTL

-----------------------------------------------------------------------------
(* What a removal of messages leaves *)

\* f has, for every k, what is kept of the first k elements.
KeepsUpTo(f, n, s, S) ==
    f = [k \in 0..n |-> IF k = 0 THEN << >>
                        ELSE IF s[k] \in S THEN Append(f[k - 1], s[k]) ELSE f[k - 1]]

\* A table of what is kept of the first messages extends by one.
LEMMA KeepsExtends ==
    ASSUME NEW n \in Nat, NEW s, NEW S, NEW f, KeepsUpTo(f, n, s, S)
    PROVE  \E g : KeepsUpTo(g, n + 1, s, S)
<1> DEFINE g == [k \in 0..n + 1 |->
                   IF k <= n THEN f[k]
                   ELSE IF s[n + 1] \in S THEN Append(f[n], s[n + 1]) ELSE f[n]]
           body(k) == IF k = 0 THEN << >>
                      ELSE IF s[k] \in S THEN Append(g[k - 1], s[k]) ELSE g[k - 1]
<1>1. ASSUME NEW k \in 0..n + 1
      PROVE  g[k] = body(k)
  <2>1. CASE k <= n
    <3>1. g[k] = f[k] /\ (k # 0 => g[k - 1] = f[k - 1])
      BY <2>1
    <3>2. f[k] = IF k = 0 THEN << >>
                 ELSE IF s[k] \in S THEN Append(f[k - 1], s[k]) ELSE f[k - 1]
      <4>1. k \in 0..n
        BY <2>1
      <4> HIDE DEF g, body
      <4> QED
        BY <4>1 DEF KeepsUpTo
    <3> HIDE DEF g
    <3> QED
      BY <3>1, <3>2
  <2>2. CASE k = n + 1
    <3>1. g[n + 1] = (IF s[n + 1] \in S THEN Append(f[n], s[n + 1]) ELSE f[n]) /\ g[n] = f[n]
      OBVIOUS
    <3>2. n + 1 # 0 /\ (n + 1) - 1 = n
      OBVIOUS
    <3> HIDE DEF g
    <3> QED
      BY <2>2, <3>1, <3>2
  <2> QED
    BY <2>1, <2>2
<1>2. g = [k \in 0..n + 1 |-> g[k]]
  OBVIOUS
<1> HIDE DEF g
<1>3. g = [k \in 0..n + 1 |-> body(k)]
  BY <1>1, <1>2
<1> QED
  BY <1>3 DEF KeepsUpTo

\* There is such a table for every length.
LEMMA KeepsExists ==
    ASSUME NEW s, NEW S
    PROVE  \A n \in Nat : \E f : KeepsUpTo(f, n, s, S)
<1> DEFINE N == {n \in Nat : \E f : KeepsUpTo(f, n, s, S)}
<1>1. 0 \in N
  <2> DEFINE f == [k \in {0} |-> << >>]
  <2>1. 0..0 = {0}
    OBVIOUS
  <2>2. KeepsUpTo(f, 0, s, S)
    BY <2>1 DEF KeepsUpTo
  <2> QED
    BY <2>2
<1>2. \A n \in Nat : n \in N => n + 1 \in N
  BY KeepsExtends
<1> HIDE DEF N
<1>3. Nat \subseteq N
  BY <1>1, <1>2, NatSetInduction
<1> QED
  BY <1>3 DEF N

\* What is kept is the last entry of a table.
LEMMA KeptIs ==
    ASSUME NEW s, IsSequence(s), NEW S
    PROVE  \E f : KeepsUpTo(f, Len(s), s, S) /\ Kept(s, S) = f[Len(s)]
<1> DEFINE f == CHOOSE f : KeepsUpTo(f, Len(s), s, S)
<1>1. KeepsUpTo(f, Len(s), s, S)
  BY KeepsExists, SequenceDomain
<1>2. Kept(s, S) = f[Len(s)]
  BY DEF Kept, KeepsUpTo
<1> QED
  BY <1>1, <1>2

\* ns has the messages of ms at the positions S and no other, in their order;
\* c says where each of them is.
PlacedAt(ms, S, ns, c) ==
    /\ IsSequence(ns)
    /\ \A k \in S : c[k] \in 1..Len(ns) /\ ns[c[k]] = ms[k]
    /\ \A l \in 1..Len(ns) : \E k \in S : c[k] = l
    /\ \A k, q \in S : k < q => c[k] < c[q]

LEMMA PlacedOneMore ==
    ASSUME NEW ms, NEW n \in Nat, NEW S \in SUBSET (1..n), NEW ns, NEW c, PlacedAt(ms, S, ns, c)
    PROVE  \E d : PlacedAt(ms, S \cup {n + 1}, Append(ns, ms[n + 1]), d)
<1> DEFINE m == n + 1
           T == S \cup {m}
           l == Len(ns)
           g == Append(ns, ms[m])
           d == [k \in T |-> IF k = m THEN l + 1 ELSE c[k]]
<1>1. l \in Nat /\ DOMAIN ns = 1..l
  BY SequenceDomain DEF PlacedAt
<1>2. IsSequence(g) /\ Len(g) = l + 1 /\ (\A i \in 1..l : g[i] = ns[i]) /\ g[l + 1] = ms[m]
  <2>1. WithOne(ns, ms[m], g)
    BY OneAppended DEF PlacedAt
  <2> QED
    BY <1>1, <2>1 DEF WithOne
<1>3. m \in Nat /\ \A k \in S : k \in Nat /\ k < m /\ k # m
  OBVIOUS
<1>4. d[m] = l + 1 /\ \A k \in S : d[k] = c[k]
  BY <1>3
<1> HIDE DEF d, g, l, m
<1>5. \A k \in S : c[k] \in 1..l /\ ns[c[k]] = ms[k]
  BY DEF PlacedAt, l
<1>6. \A k \in T : d[k] \in 1..l + 1 /\ g[d[k]] = ms[k]
  BY <1>1, <1>2, <1>4, <1>5
<1>7. ASSUME NEW i \in 1..l + 1
      PROVE  \E k \in T : d[k] = i
  <2>1. CASE i = l + 1
    BY <1>4, <2>1
  <2>2. CASE i # l + 1
    <3>1. i \in 1..l
      BY <1>1, <2>2
    <3>2. PICK k \in S : c[k] = i
      BY <3>1 DEF PlacedAt, l
    <3> QED
      BY <1>4, <3>2
  <2> QED
    BY <2>1, <2>2
<1>8. ASSUME NEW k \in T, NEW q \in T, k < q
      PROVE  d[k] < d[q]
  <2>1. CASE q = m
    <3>1. k \in S
      BY <1>3, <1>8, <2>1
    <3>2. d[q] = l + 1 /\ d[k] = c[k]
      BY <1>4, <2>1, <3>1
    <3>3. c[k] \in 1..l
      BY <1>5, <3>1
    <3> QED
      BY <1>1, <3>2, <3>3
  <2>2. CASE q # m
    <3>1. k \in S /\ q \in S
      BY <1>3, <1>8, <2>2
    <3>2. c[k] < c[q]
      BY <1>8, <3>1 DEF PlacedAt
    <3> QED
      BY <1>4, <3>1, <3>2
  <2> QED
    BY <2>1, <2>2
<1>9. PlacedAt(ms, T, g, d)
  BY <1>2, <1>6, <1>7, <1>8 DEF PlacedAt
<1> QED
  BY <1>9 DEF g, m

\* What is kept stands at its places, in its order.
LEMMA KeptPlaced ==
    ASSUME NEW s, IsSequence(s), NEW S
    PROVE  \E c : PlacedAt(s, {k \in DOMAIN s : s[k] \in S}, Kept(s, S), c)
<1> DEFINE n == Len(s)
           upTo(k) == {q \in 1..k : s[q] \in S}
<1>1. n \in Nat /\ DOMAIN s = 1..n
  BY SequenceDomain
<1>2. PICK f : KeepsUpTo(f, n, s, S) /\ Kept(s, S) = f[n]
  BY KeptIs
<1> DEFINE N == {k \in Nat : k <= n => \E c : PlacedAt(s, upTo(k), f[k], c)}
<1> HIDE DEF n
<1>4. 0 \in N
  <2>1. f[0] = << >> /\ upTo(0) = {}
    BY <1>1, <1>2 DEF KeepsUpTo
  <2> HIDE DEF upTo
  <2>2. PlacedAt(s, {}, << >>, << >>)
    BY DEF PlacedAt, IsSequence
  <2> QED
    BY <2>1, <2>2
<1>5. ASSUME NEW k \in Nat, k \in N
      PROVE  k + 1 \in N
  <2> DEFINE m == k + 1
  <2> SUFFICES ASSUME m <= n
               PROVE  \E c : PlacedAt(s, upTo(m), f[m], c)
    OBVIOUS
  <2>1. m \in 0..n /\ m # 0 /\ m - 1 = k /\ k <= n
    BY <1>1
  <2>2. PICK c : PlacedAt(s, upTo(k), f[k], c)
    BY <1>5, <2>1
  <2>3. f[m] = IF s[m] \in S THEN Append(f[k], s[m]) ELSE f[k]
    <3> HIDE DEF m, N
    <3> QED
      BY <1>2, <2>1 DEF KeepsUpTo
  <2>4. CASE s[m] \notin S
    <3>1. upTo(m) = upTo(k)
      BY <2>4
    <3> HIDE DEF upTo, m
    <3> QED
      BY <2>2, <2>3, <2>4, <3>1
  <2>5. CASE s[m] \in S
    <3>1. upTo(m) = upTo(k) \cup {m} /\ upTo(k) \in SUBSET (1..k)
      BY <2>5
    <3> HIDE DEF upTo
    <3>2. \E d : PlacedAt(s, upTo(k) \cup {m}, Append(f[k], s[m]), d)
      BY <2>2, <3>1, PlacedOneMore
    <3> HIDE DEF m
    <3> QED
      BY <2>3, <2>5, <3>1, <3>2
  <2> QED
    BY <2>4, <2>5
<1> HIDE DEF N
<1>6. Nat \subseteq N
  BY <1>4, <1>5, NatSetInduction
<1>7. {k \in DOMAIN s : s[k] \in S} = upTo(n)
  BY <1>1
<1>8. \E c : PlacedAt(s, upTo(n), f[n], c)
  <2> HIDE DEF upTo
  <2> QED
    BY <1>1, <1>6 DEF N
<1> HIDE DEF upTo
<1> QED
  BY <1>2, <1>7, <1>8

Staying(ms, ids) == {k \in DOMAIN ms : ms[k].id \notin ids}

\* The messages that are not named stay, in their order.
LEMMA StayingPlaced ==
    ASSUME NEW ms, IsSequence(ms), NEW ids
    PROVE  \E c : PlacedAt(ms, Staying(ms, ids), MessagesWithout(ms, ids), c)
<1> DEFINE S == {m \in Elements(ms) : m.id \notin ids}
<1>1. {k \in DOMAIN ms : ms[k] \in S} = Staying(ms, ids)
  BY DEF Staying, Elements
<1>2. MessagesWithout(ms, ids) = Kept(ms, S)
  BY DEF MessagesWithout
<1> HIDE DEF S
<1> QED
  BY <1>1, <1>2, KeptPlaced

-----------------------------------------------------------------------------
(* Rounds that move *)

\* The messages from a to a + len, one by one.
PartIs(s, a, len) == SubSeq(s, a, a + len) = [k \in 1..len + 1 |-> s[k + a - 1]]

LEMMA PartOf ==
    ASSUME NEW s, NEW a \in Nat, NEW len \in Nat
    PROVE  PartIs(s, a, len)
<1> DEFINE b == a + len
<1>1. SubSeq(s, a, b) = [k \in 1..(b - a + 1) |-> s[k + a - 1]]
  <2>1. b \in Nat
    OBVIOUS
  <2> HIDE DEF b
  <2> QED
    BY <2>1 DEF SubSeq
<1>2. b - a + 1 = len + 1
  OBVIOUS
<1> HIDE DEF b
<1>3. SubSeq(s, a, b) = [k \in 1..len + 1 |-> s[k + a - 1]]
  BY <1>1, <1>2
<1> QED
  BY <1>3 DEF PartIs, b

\* Positions of two equally long stretches, from i and from j on.
Parallel(i, j, len) ==
    /\ \A k \in j+1..j + len : k \in j..j + len /\ k - j + i \in i+1..i + len
    /\ \A k \in i+1..i + len : k - i + j \in j+1..j + len /\ (k - i + j) - j + i = k
    /\ \A k, q \in j+1..j + len : k - j + i = q - j + i => k = q
    /\ j \in j..j + len /\ j - j + i = i
    /\ \A k \in 1..len + 1 : k + j - 1 \in j..j + len /\ (k + j - 1) - j + i = k + i - 1

LEMMA ParallelStretches ==
    ASSUME NEW i \in Nat, NEW j \in Nat, NEW len \in Nat
    PROVE  Parallel(i, j, len)
<1>1. \A k \in j+1..j + len : k \in j..j + len /\ k - j + i \in i+1..i + len
  OBVIOUS
<1>2. \A k \in i+1..i + len : k - i + j \in j+1..j + len /\ (k - i + j) - j + i = k
  OBVIOUS
<1>3. \A k, q \in j+1..j + len : k - j + i = q - j + i => k = q
  OBVIOUS
<1>4. j \in j..j + len /\ j - j + i = i
  OBVIOUS
<1>5. \A k \in 1..len + 1 : k + j - 1 \in j..j + len /\ (k + j - 1) - j + i = k + i - 1
  OBVIOUS
<1> QED
  BY <1>1, <1>2, <1>3, <1>4, <1>5, Zenon DEF Parallel

LEMMA MinOf ==
    ASSUME NEW S, S \subseteq Nat, S # {}
    PROVE  Min(S) \in S /\ \A y \in S : Min(S) <= y
<1>1. IsWellFoundedOn(OpToRel(<, Nat), Nat)
  BY NatLessThanWellFounded
<1>2. PICK x \in S : \A y \in S : ~(<<y, x>> \in OpToRel(<, Nat))
  BY <1>1, WFMin
<1>3. \A y \in S : x <= y
  <2> TAKE y \in S
  <2>1. ~(y < x)
    BY <1>2 DEF OpToRel
  <2> QED
    BY <2>1
<1> QED
  BY <1>2, <1>3 DEF Min

LEMMA BlockEnd ==
    ASSUME NEW ms, IsSequence(ms), NEW i \in DOMAIN ms
    PROVE  LET e == ContiguousToolBlockEnd(ms, i)
           IN  /\ e \in i..Len(ms)
               /\ \A k \in i+1..e : ms[k].role = "tool"
               /\ e < Len(ms) => ms[e + 1].role # "tool"
<1> DEFINE n == Len(ms)
           S == {e \in i..n : e = n \/ ms[e + 1].role # "tool"}
           e == Min(S)
<1>1. n \in Nat /\ i \in 1..n
  BY SequenceDomain
<1> HIDE DEF n
<1>2. S \subseteq Nat /\ n \in S
  BY <1>1
<1>3. e \in S /\ \A y \in S : e <= y
  BY <1>2, MinOf
<1> HIDE DEF e
<1>4. e \in i..n /\ (e < n => ms[e + 1].role # "tool")
  BY <1>1, <1>3
<1>5. ASSUME NEW k \in i+1..e
      PROVE  ms[k].role = "tool"
  <2>1. k - 1 \in i..n /\ k - 1 < e /\ (k - 1) + 1 = k /\ k - 1 # n
    BY <1>1, <1>4
  <2>2. k - 1 \notin S
    BY <1>1, <1>3, <1>4, <2>1
  <2> QED
    BY <2>1, <2>2
<1> QED
  BY <1>4, <1>5 DEF ContiguousToolBlockEnd, n

\* The block behind i ends where the tool messages end.
LEMMA BlockEndIs ==
    ASSUME NEW ms, IsSequence(ms), NEW i \in DOMAIN ms, NEW e \in i..Len(ms),
           \A k \in i+1..e : ms[k].role = "tool",
           e < Len(ms) => ms[e + 1].role # "tool"
    PROVE  ContiguousToolBlockEnd(ms, i) = e
<1> DEFINE f == ContiguousToolBlockEnd(ms, i)
           n == Len(ms)
<1>1. n \in Nat /\ i \in 1..n
  BY SequenceDomain
<1>2. /\ f \in i..n
      /\ \A k \in i+1..f : ms[k].role = "tool"
      /\ f < n => ms[f + 1].role # "tool"
  BY BlockEnd
<1>3. e < n => ms[e + 1].role # "tool"
  OBVIOUS
<1> HIDE DEF f, n
<1>4. e \in i..n
  BY DEF n
<1>5. ~(f < e)
  <2> SUFFICES ASSUME f < e PROVE FALSE
    OBVIOUS
  <2>1. f + 1 \in i+1..e /\ f < n
    BY <1>1, <1>2, <1>4
  <2> QED
    BY <1>2, <2>1
<1>6. ~(e < f)
  <2> SUFFICES ASSUME e < f PROVE FALSE
    OBVIOUS
  <2>1. e + 1 \in i+1..f /\ e < n
    BY <1>1, <1>2, <1>4
  <2> QED
    BY <1>2, <1>3, <2>1
<1>7. e = f
  BY <1>1, <1>2, <1>4, <1>5, <1>6
<1> QED
  BY <1>7 DEF f

\* A complete round of the messages round is at j.
StandsAt(ms, j, round) ==
    /\ j \in DOMAIN ms /\ IsCompleteRound(ms, j)
    /\ SubSeq(ms, j, ContiguousToolBlockEnd(ms, j)) = round

RoundAt(ms, i) == SubSeq(ms, i, ContiguousToolBlockEnd(ms, i))

\* The messages a..b of ns are those of ms from i on.
SameMessages(ns, a, b, ms, i) == \A k \in a..b : ns[k] = ms[k - a + i]

\* The complete round at i is at j of ns, and no other tool message follows.
CarriedTo(ns, j, ms, i, len) ==
    /\ i \in DOMAIN ms /\ IsCompleteRound(ms, i) /\ ContiguousToolBlockEnd(ms, i) = i + len
    /\ j \in DOMAIN ns /\ j + len <= Len(ns)
    /\ SameMessages(ns, j, j + len, ms, i)
    /\ j + len < Len(ns) => ns[j + len + 1].role # "tool"

\* There it is a complete round of the same messages.
LEMMA RoundMoved ==
    ASSUME NEW ms, IsSequence(ms), NEW i, NEW ns, IsSequence(ns), NEW j, NEW len \in Nat,
           CarriedTo(ns, j, ms, i, len)
    PROVE  StandsAt(ns, j, RoundAt(ms, i)) /\ ContiguousToolBlockEnd(ns, j) = j + len
<1> DEFINE e == i + len
           f == j + len
<1>1. /\ i \in Nat /\ e \in Nat /\ i <= e
      /\ j \in Nat /\ f \in Nat /\ j <= f /\ f \in j..Len(ns)
      /\ i \in DOMAIN ms /\ j \in DOMAIN ns /\ IsCompleteRound(ms, i)
  BY SequenceDomain DEF CarriedTo
<1>2. /\ \A k \in j+1..f : k \in j..f /\ k - j + i \in i+1..e
      /\ \A k \in i+1..e : k - i + j \in j+1..f /\ (k - i + j) - j + i = k
      /\ \A k, q \in j+1..f : k - j + i = q - j + i => k = q
      /\ j \in j..f /\ j - j + i = i
      /\ \A k \in 1..len + 1 : k + j - 1 \in j..f /\ (k + j - 1) - j + i = k + i - 1
  <2>1. Parallel(i, j, len)
    BY <1>1, ParallelStretches
  <2> QED
    BY <2>1, Zenon DEF Parallel
<1>0. /\ ContiguousToolBlockEnd(ms, i) = e
      /\ SameMessages(ns, j, f, ms, i)
      /\ f < Len(ns) => ns[f + 1].role # "tool"
  BY Zenon DEF CarriedTo
<1>3. \A k \in i+1..e : ms[k].role = "tool"
  <2> HIDE DEF e
  <2> QED
    BY <1>0, <1>1, BlockEnd
<1> HIDE DEF e, f
<1>4. \A k \in j+1..f : k \in j..f /\ k - j + i \in i+1..e
  BY <1>2
<1>5. \A k \in i+1..e : k - i + j \in j+1..f /\ (k - i + j) - j + i = k
  BY <1>2
<1>6. \A k \in j+1..f : ns[k] = ms[k - j + i]
  BY <1>0, <1>4 DEF SameMessages
<1>7. \A k \in j+1..f : ns[k].role = "tool"
  BY <1>3, <1>4, <1>6
<1>8. ContiguousToolBlockEnd(ns, j) = f
  BY <1>0, <1>1, <1>7, BlockEndIs
<1>9. ns[j] = ms[i]
  <2>1. j \in j..f /\ j - j + i = i
    BY <1>2
  <2> QED
    BY <1>0, <2>1 DEF SameMessages
<1> DEFINE asked == ms[i].calls
<1>10. /\ ms[i].role = "assistant" /\ HasToolCalls(ms[i]) /\ CallIDsValid(asked)
       /\ ResultsValid(ms, i + 1, e, asked) /\ Answered(ms, i + 1, e) = Elements(asked)
  BY <1>0, <1>1 DEF IsCompleteRound
<1> HIDE DEF asked
<1>11. ResultsValid(ns, j + 1, f, asked)
  <2>1. \A k \in j+1..f : ns[k].results # << >> /\ Elements(ns[k].results) \subseteq Elements(asked)
    BY <1>4, <1>6, <1>10 DEF ResultsValid
  <2>2. ASSUME NEW k \in j+1..f, NEW q \in j+1..f, NEW p \in DOMAIN ns[k].results, NEW r \in DOMAIN ns[q].results,
               ns[k].results[p] = ns[q].results[r]
        PROVE  k = q /\ p = r
    <3> DEFINE a == k - j + i
               b == q - j + i
    <3>1. a \in i+1..e /\ b \in i+1..e /\ ns[k] = ms[a] /\ ns[q] = ms[b]
      BY <1>4, <1>6
    <3>2. a = b => k = q
      BY <1>2
    <3> HIDE DEF a, b
    <3>3. a = b /\ p = r
      BY <1>10, <2>2, <3>1 DEF ResultsValid
    <3> QED
      BY <3>2, <3>3
  <2> QED
    BY <1>7, <2>1, <2>2 DEF ResultsValid
<1>12. Answered(ns, j + 1, f) = Answered(ms, i + 1, e)
  <2>1. \A k \in j+1..f : \E q \in i+1..e : ns[k] = ms[q]
    BY <1>4, <1>6
  <2>2. \A q \in i+1..e : \E k \in j+1..f : ns[k] = ms[q]
    <3> TAKE q \in i+1..e
    <3> DEFINE k == q - i + j
    <3>1. k \in j+1..f /\ k - j + i = q
      BY <1>5
    <3> HIDE DEF k
    <3>2. ns[k] = ms[q]
      BY <1>6, <3>1
    <3> QED
      BY <3>1, <3>2
  <2>3. {Elements(ns[k].results) : k \in j+1..f} = {Elements(ms[q].results) : q \in i+1..e}
    <3> DEFINE A == j+1..f
               B == i+1..e
    <3>1. (\A k \in A : \E q \in B : ns[k] = ms[q]) /\ \A q \in B : \E k \in A : ns[k] = ms[q]
      BY <2>1, <2>2
    <3> HIDE DEF A, B
    <3>2. {Elements(ns[k].results) : k \in A} = {Elements(ms[q].results) : q \in B}
      BY <3>1
    <3> QED
      BY <3>2 DEF A, B
  <2> QED
    BY <2>3 DEF Answered
<1>13. IsCompleteRound(ns, j)
  <2>1. ns[j].calls = asked /\ HasToolCalls(ns[j]) /\ ns[j].role = "assistant"
    BY <1>9, <1>10 DEF asked
  <2> QED
    BY <1>8, <1>10, <1>11, <1>12, <2>1 DEF IsCompleteRound
<1>14. SubSeq(ns, j, f) = SubSeq(ms, i, e)
  <2> DEFINE a == SubSeq(ns, j, f)
             b == SubSeq(ms, i, e)
  <2>5. PartIs(ns, j, len) /\ PartIs(ms, i, len)
    BY <1>1, PartOf
  <2>1. a = [k \in 1..len + 1 |-> ns[k + j - 1]]
    BY <2>5, Zenon DEF PartIs, f
  <2>2. b = [k \in 1..len + 1 |-> ms[k + i - 1]]
    BY <2>5, Zenon DEF PartIs, e
  <2> HIDE DEF a, b
  <2>3. ASSUME NEW k \in 1..len + 1
        PROVE  ns[k + j - 1] = ms[k + i - 1]
    <3> DEFINE q == k + j - 1
    <3>1. q \in j..f /\ q - j + i = k + i - 1
      BY <1>2
    <3> HIDE DEF q
    <3>2. ns[q] = ms[q - j + i]
      BY <1>0, <3>1 DEF SameMessages
    <3> QED
      BY <3>1, <3>2 DEF q
  <2>4. a = b
    BY <2>1, <2>2, <2>3
  <2> QED
    BY <2>4 DEF a, b
<1> QED
  BY <1>0, <1>1, <1>8, <1>13, <1>14 DEF StandsAt, RoundAt, f

-----------------------------------------------------------------------------
(* What additions do to rounds *)

LEMMA SequenceOf ==
    ASSUME NEW S, NEW g \in Seq(S)
    PROVE  IsSequence(g)
BY DEF IsSequence, Range

\* g is s and t behind it.
Joins(g, s, t) ==
    /\ IsSequence(g) /\ Len(g) = Len(s) + Len(t)
    /\ \A i \in 1..Len(s) : g[i] = s[i]
    /\ \A i \in 1..Len(t) : g[Len(s) + i] = t[i]

LEMMA JoinedIs ==
    ASSUME NEW s, IsSequence(s), NEW t, IsSequence(t), NEW g, g = s \o t
    PROVE  Joins(g, s, t)
<1> DEFINE S == Range(s) \cup Range(t)
<1>1. s \in Seq(S) /\ t \in Seq(S)
  BY DEF IsSequence
<1>2. /\ g \in Seq(S) /\ Len(g) = Len(s) + Len(t)
      /\ \A i \in 1..Len(s) + Len(t) : g[i] = IF i <= Len(s) THEN s[i] ELSE t[i - Len(s)]
  BY <1>1, ConcatProperties
<1>3. Len(s) \in Nat /\ Len(t) \in Nat
  BY SequenceDomain
<1>4. IsSequence(g)
  <2> HIDE DEF S
  <2>1. g \in Seq(S)
    BY <1>2
  <2> QED
    BY <2>1, SequenceOf
<1>5. \A i \in 1..Len(s) : g[i] = s[i]
  BY <1>2, <1>3
<1>6. ASSUME NEW i \in 1..Len(t)
      PROVE  g[Len(s) + i] = t[i]
  <2> DEFINE n == Len(s)
             k == n + i
  <2>1. k \in 1..n + Len(t) /\ ~(k <= n) /\ k - n = i
    BY <1>3
  <2> HIDE DEF k, n
  <2>2. g[k] = t[k - n]
    BY <1>2, <2>1 DEF n
  <2> QED
    BY <2>1, <2>2 DEF k, n
<1> QED
  BY <1>2, <1>4, <1>5, <1>6 DEF Joins

\* Nothing follows a history without strays that belongs to a round before it.
LEMMA FirstIsNoResult ==
    ASSUME NEW ms, NoStrayResults(ms), 1 \in DOMAIN ms
    PROVE  ms[1].role # "tool"
BY DEF NoStrayResults

LEMMA AdditionStep ==
    ASSUME NEW ms, IsSequence(ms), NoStrayResults(ms), NEW xs, IsSequence(xs), NoStrayResults(xs),
           NEW ns, ns = ms \o xs
    PROVE  /\ IsSequence(ns) /\ NoStrayResults(ns)
           /\ \A i \in DOMAIN ms : IsCompleteRound(ms, i) => StandsAt(ns, i, RoundAt(ms, i))
<1> DEFINE n == Len(ms)
           m == Len(xs)
<1>1. n \in Nat /\ DOMAIN ms = 1..n /\ m \in Nat /\ DOMAIN xs = 1..m
  BY SequenceDomain
<1>2. /\ IsSequence(ns) /\ Len(ns) = n + m
      /\ \A i \in 1..n : ns[i] = ms[i]
      /\ \A i \in 1..m : ns[n + i] = xs[i]
  <2>1. Joins(ns, ms, xs)
    BY JoinedIs
  <2> QED
    BY <2>1, Zenon DEF Joins
<1>3. DOMAIN ns = 1..n + m
  BY <1>2, SequenceDomain
<1> HIDE DEF n, m
<1>4. ASSUME NEW i \in DOMAIN ms, IsCompleteRound(ms, i)
      PROVE  StandsAt(ns, i, RoundAt(ms, i)) /\ ContiguousToolBlockEnd(ns, i) = ContiguousToolBlockEnd(ms, i)
  <2> DEFINE e == ContiguousToolBlockEnd(ms, i)
             len == e - i
  <2>1. e \in i..n /\ (e < n => ms[e + 1].role # "tool")
    BY BlockEnd DEF n
  <2> HIDE DEF e
  <2>2. i \in 1..n /\ len \in Nat /\ e = i + len /\ i + len <= n + m /\ i \in 1..n + m
    BY <1>1, <2>1
  <2>3. SameMessages(ns, i, i + len, ms, i)
    <3>1. \A k \in i..e : k \in 1..n /\ k - i + i = k
      BY <1>1, <2>1, <2>2
    <3>2. SameMessages(ns, i, e, ms, i)
      BY <1>2, <3>1 DEF SameMessages
    <3> HIDE DEF len
    <3> QED
      BY <2>2, <3>2
  <2>4. e < n + m => ns[e + 1].role # "tool"
    <3> SUFFICES ASSUME e < n + m PROVE ns[e + 1].role # "tool"
      OBVIOUS
    <3>1. CASE e < n
      <4>1. e + 1 \in 1..n
        BY <1>1, <2>1, <2>2, <3>1
      <4> QED
        BY <1>2, <2>1, <3>1, <4>1
    <3>2. CASE ~(e < n)
      <4>1. e = n /\ 1 \in 1..m
        BY <1>1, <2>1, <2>2, <3>2
      <4>2. xs[1].role # "tool"
        BY <1>1, <4>1, FirstIsNoResult
      <4>3. ns[n + 1] = xs[1]
        BY <1>2, <4>1
      <4> QED
        BY <4>1, <4>2, <4>3
    <3> QED
      BY <3>1, <3>2
  <2> HIDE DEF len
  <2>5. i + len < Len(ns) => ns[i + len + 1].role # "tool"
    BY <1>2, <2>2, <2>4
  <2>6. i + len <= Len(ns) /\ i \in DOMAIN ns /\ ContiguousToolBlockEnd(ms, i) = i + len
    BY <1>2, <1>3, <2>2 DEF e
  <2>7. StandsAt(ns, i, RoundAt(ms, i)) /\ ContiguousToolBlockEnd(ns, i) = i + len
    <3>1. CarriedTo(ns, i, ms, i, len)
      BY <1>4, <2>3, <2>5, <2>6, Zenon DEF CarriedTo
    <3> QED
      BY <1>2, <2>2, <3>1, RoundMoved
  <2> QED
    BY <2>2, <2>7 DEF e
<1>5. ASSUME NEW i \in DOMAIN xs, IsCompleteRound(xs, i)
      PROVE  /\ IsCompleteRound(ns, n + i)
             /\ ContiguousToolBlockEnd(ns, n + i) = n + ContiguousToolBlockEnd(xs, i)
  <2> DEFINE e == ContiguousToolBlockEnd(xs, i)
             len == e - i
             j == n + i
  <2>1. e \in i..m /\ (e < m => xs[e + 1].role # "tool")
    BY BlockEnd DEF m
  <2> HIDE DEF e
  <2>9. i \in 1..m /\ e \in Nat /\ i <= e /\ e <= m
    BY <1>1, <2>1
  <2>2. /\ i \in Nat /\ len \in Nat /\ e = i + len
        /\ j \in 1..n + m /\ j + len = n + e /\ j + len <= n + m
    BY <1>1, <2>9
  <2>8. len \in Nat
    BY <2>2
  <2>3. SameMessages(ns, j, j + len, xs, i)
    <3>1. \A k \in j..j + len : k - j + i \in 1..m /\ n + (k - j + i) = k
      BY <1>1, <2>9
    <3>2. \A k \in j..j + len : ns[k] = xs[k - j + i]
      <4> TAKE k \in j..j + len
      <4> DEFINE q == k - j + i
      <4>1. q \in 1..m /\ n + q = k
        BY <3>1
      <4> HIDE DEF q, j, len
      <4>2. ns[n + q] = xs[q]
        BY <1>2, <4>1
      <4> QED
        BY <4>1, <4>2 DEF q
    <3> HIDE DEF j, len
    <3> QED
      BY <3>2 DEF SameMessages
  <2>4. j + len < n + m => ns[j + len + 1].role # "tool"
    <3> SUFFICES ASSUME j + len < n + m PROVE ns[j + len + 1].role # "tool"
      OBVIOUS
    <3> DEFINE q == e + 1
    <3>1. q \in 1..m /\ n + q = j + len + 1 /\ e < m
      BY <1>1, <2>1, <2>2
    <3> HIDE DEF j, len
    <3>2. xs[q].role # "tool"
      BY <2>1, <3>1
    <3> HIDE DEF q
    <3>3. ns[n + q] = xs[q]
      BY <1>2, <3>1
    <3> QED
      BY <3>1, <3>2, <3>3
  <2> HIDE DEF j, len
  <2>5. j + len <= Len(ns) /\ j \in DOMAIN ns /\ ContiguousToolBlockEnd(xs, i) = i + len
    BY <1>2, <1>3, <2>2 DEF e
  <2>6. j + len < Len(ns) => ns[j + len + 1].role # "tool"
    BY <1>2, <2>4
  <2>7. StandsAt(ns, j, RoundAt(xs, i)) /\ ContiguousToolBlockEnd(ns, j) = j + len
    <3>1. CarriedTo(ns, j, xs, i, len)
      BY <1>5, <2>3, <2>5, <2>6, Zenon DEF CarriedTo
    <3> QED
      BY <1>2, <2>8, <3>1, RoundMoved
  <2> QED
    BY <2>2, <2>7 DEF e, j, StandsAt
<1>6. ASSUME NEW k \in DOMAIN ns, ns[k].role = "tool"
      PROVE  \E i \in 1..k-1 : IsCompleteRound(ns, i) /\ k <= ContiguousToolBlockEnd(ns, i)
  <2>1. CASE k <= n
    <3>1. k \in DOMAIN ms /\ ms[k].role = "tool"
      BY <1>1, <1>2, <1>3, <1>6, <2>1
    <3>2. PICK i \in 1..k-1 : IsCompleteRound(ms, i) /\ k <= ContiguousToolBlockEnd(ms, i)
      BY <3>1 DEF NoStrayResults
    <3>3. i \in DOMAIN ms
      BY <1>1, <3>1
    <3>4. IsCompleteRound(ns, i) /\ ContiguousToolBlockEnd(ns, i) = ContiguousToolBlockEnd(ms, i)
      BY <1>4, <3>2, <3>3 DEF StandsAt
    <3> QED
      BY <3>2, <3>4
  <2>2. CASE ~(k <= n)
    <3> DEFINE q == k - n
    <3>1. q \in 1..m /\ n + q = k
      BY <1>1, <1>3, <2>2
    <3> HIDE DEF q
    <3>2. xs[q].role = "tool"
      BY <1>2, <1>6, <3>1
    <3>3. PICK i \in 1..q-1 : IsCompleteRound(xs, i) /\ q <= ContiguousToolBlockEnd(xs, i)
      BY <1>1, <3>1, <3>2 DEF NoStrayResults
    <3> DEFINE j == n + i
               e == ContiguousToolBlockEnd(xs, i)
    <3>4. i \in DOMAIN xs /\ j \in 1..k-1
      BY <1>1, <3>1
    <3>5. IsCompleteRound(ns, j) /\ ContiguousToolBlockEnd(ns, j) = n + e
      BY <1>5, <3>3, <3>4
    <3>6. e \in i..m
      BY <3>4, BlockEnd DEF m
    <3>7. q <= e
      BY <3>3
    <3> HIDE DEF j, e
    <3>8. k <= n + e
      BY <1>1, <3>1, <3>4, <3>6, <3>7
    <3> QED
      BY <3>4, <3>5, <3>8
  <2> QED
    BY <2>1, <2>2
<1> QED
  BY <1>2, <1>4, <1>6 DEF NoStrayResults

-----------------------------------------------------------------------------
(* What a removal does to rounds *)

\* Neighbours that stay are neighbours again.
LEMMA NeighboursStay ==
    ASSUME NEW ms, NEW S \in SUBSET Nat, NEW ns, NEW c, PlacedAt(ms, S, ns, c),
           NEW k \in S, NEW m \in S, m = k + 1
    PROVE  c[m] = c[k] + 1
<1> DEFINE l == c[k] + 1
<1>1. Len(ns) \in Nat
  BY SequenceDomain DEF PlacedAt
<1>2. c[k] \in 1..Len(ns) /\ c[m] \in 1..Len(ns)
  BY DEF PlacedAt
<1>3. k < m
  OBVIOUS
<1>4. c[k] < c[m]
  BY <1>3, Zenon DEF PlacedAt
<1>5. SUFFICES ASSUME l < c[m] PROVE FALSE
  BY <1>1, <1>2, <1>4
<1>6. l \in 1..Len(ns)
  BY <1>1, <1>2, <1>5
<1> HIDE DEF l
<1>7. PICK q \in S : c[q] = l
  BY <1>6 DEF PlacedAt
<1>8. c[k] < l /\ l \in Nat /\ c[k] \in Nat /\ c[m] \in Nat
  BY <1>1, <1>2, <1>6 DEF l
<1>9. ~(q < k) /\ q # k /\ ~(m < q) /\ q # m
  <2>1. q < k => c[q] < c[k]
    BY Zenon DEF PlacedAt
  <2>2. m < q => c[m] < c[q]
    BY Zenon DEF PlacedAt
  <2> QED
    BY <1>5, <1>7, <1>8, <2>1, <2>2
<1>10. q \in Nat /\ k \in Nat
  OBVIOUS
<1> QED
  BY <1>9, <1>10

\* The places from i on follow one another.
InARow(c, i, len) == \A q \in 0..len : c[i + q] = c[i] + q

LEMMA StretchStays ==
    ASSUME NEW ms, NEW S \in SUBSET Nat, NEW ns, NEW c, PlacedAt(ms, S, ns, c),
           NEW i \in Nat, NEW len \in Nat, i..i + len \subseteq S
    PROVE  InARow(c, i, len)
<1> DEFINE N == {q \in Nat : q <= len => c[i + q] = c[i] + q}
<1>0. Len(ns) \in Nat
  BY SequenceDomain DEF PlacedAt
<1>1. 0 \in N
  <2>1. i \in S /\ i + 0 = i
    OBVIOUS
  <2>2. c[i] \in 1..Len(ns)
    BY <2>1 DEF PlacedAt
  <2>3. c[i] + 0 = c[i]
    BY <1>0, <2>2
  <2> QED
    BY <2>1, <2>3
<1>2. ASSUME NEW q \in Nat, q \in N
      PROVE  q + 1 \in N
  <2> DEFINE k == i + q
             m == i + (q + 1)
  <2> SUFFICES ASSUME q + 1 <= len
               PROVE  c[m] = c[i] + (q + 1)
    OBVIOUS
  <2>1. k \in i..i + len /\ m \in i..i + len /\ m = k + 1 /\ i \in i..i + len
    OBVIOUS
  <2>2. c[k] = c[i] + q
    BY <1>2
  <2> HIDE DEF k, m
  <2>3. k \in S /\ m \in S /\ i \in S
    BY <2>1
  <2>4. c[m] = c[k] + 1
    BY <2>1, <2>3, NeighboursStay
  <2>5. c[i] \in 1..Len(ns)
    BY <2>3 DEF PlacedAt
  <2> QED
    BY <1>0, <2>2, <2>4, <2>5
<1> HIDE DEF N
<1>3. Nat \subseteq N
  BY <1>1, <1>2, NatSetInduction
<1> QED
  BY <1>3 DEF N, InARow

LEMMA RemovalStep ==
    ASSUME NEW ms, IsSequence(ms), NoStrayResults(ms), NEW ids, RemovalKeepsRounds(ms, ids),
           NEW ns, ns = MessagesWithout(ms, ids)
    PROVE  /\ IsSequence(ns) /\ NoStrayResults(ns)
           /\ \A i \in DOMAIN ms : IsCompleteRound(ms, i) =>
                \/ \E j \in DOMAIN ns : StandsAt(ns, j, RoundAt(ms, i))
                \/ Elements(RoundAt(ms, i)) \cap Elements(ns) = {}
<1> DEFINE S == Staying(ms, ids)
           n == Len(ms)
           m == Len(ns)
           end(i) == ContiguousToolBlockEnd(ms, i)
<1>1. PICK c : PlacedAt(ms, S, ns, c)
  BY StayingPlaced
<1>2. /\ n \in Nat /\ DOMAIN ms = 1..n
      /\ IsSequence(ns) /\ m \in Nat /\ DOMAIN ns = 1..m
  BY <1>1, SequenceDomain DEF PlacedAt
<1>3. S = {k \in 1..n : ms[k].id \notin ids} /\ S \in SUBSET Nat
  BY <1>2 DEF Staying
<1>4. /\ \A k \in S : c[k] \in 1..m /\ ns[c[k]] = ms[k]
      /\ \A l \in 1..m : \E k \in S : c[k] = l
      /\ \A k, q \in S : k < q => c[k] < c[q]
  BY <1>1 DEF PlacedAt
<1> HIDE DEF S, n, m
<1>5. ASSUME NEW i \in DOMAIN ms
      PROVE  /\ end(i) \in i..n
             /\ \A k \in i+1..end(i) : ms[k].role = "tool"
             /\ end(i) < n => ms[end(i) + 1].role # "tool"
  BY BlockEnd DEF n
<1>6. ASSUME NEW i \in DOMAIN ms, IsCompleteRound(ms, i), NEW k \in i..end(i), k \in S
      PROVE  i..end(i) \subseteq S
  <2>1. ms[k].id \notin ids
    BY <1>3, <1>6
  <2>2. (\E q \in i..end(i) : ms[q].id \in ids) => \A q \in i..end(i) : ms[q].id \in ids
    BY <1>6 DEF RemovalKeepsRounds
  <2>3. \A q \in i..end(i) : ms[q].id \notin ids
    BY <2>1, <2>2
  <2>4. i..end(i) \subseteq 1..n
    BY <1>2, <1>5
  <2> QED
    BY <1>3, <2>3, <2>4
<1> HIDE DEF end
<1>7. ASSUME NEW q \in S, ms[q].role = "tool"
      PROVE  \E t \in DOMAIN ms : IsCompleteRound(ms, t) /\ t < q /\ q <= end(t) /\ t..end(t) \subseteq S
  <2>1. q \in 1..n
    BY <1>3
  <2>2. PICK t \in 1..q-1 : IsCompleteRound(ms, t) /\ q <= end(t)
    BY <1>2, <1>7, <2>1 DEF NoStrayResults, end
  <2>3. t \in DOMAIN ms /\ t < q
    BY <1>2, <2>1
  <2>4. q \in t..end(t)
    BY <1>2, <1>5, <2>1, <2>2, <2>3
  <2> QED
    BY <1>6, <2>2, <2>3, <2>4
<1>8. ASSUME NEW i \in DOMAIN ms, IsCompleteRound(ms, i), i..end(i) \subseteq S
      PROVE  /\ StandsAt(ns, c[i], RoundAt(ms, i)) /\ c[i] \in DOMAIN ns
             /\ ContiguousToolBlockEnd(ns, c[i]) = c[end(i)]
  <2> DEFINE e == end(i)
             j == c[i]
             len == e - i
  <2>1. e \in i..n /\ i \in 1..n
    BY <1>2, <1>5
  <2>2. e \in Nat /\ i \in Nat /\ len \in Nat /\ e = i + len /\ i \in S /\ e \in S
    <3> HIDE DEF e
    <3>1. e \in Nat /\ i \in Nat /\ i <= e
      BY <1>2, <2>1
    <3>2. i \in i..e /\ e \in i..e
      BY <3>1
    <3> QED
      BY <1>8, <3>1, <3>2 DEF e
  <2>3. j \in 1..m /\ c[e] \in 1..m
    BY <1>4, <2>2
  <2>4. i..i + len \subseteq S
    <3> HIDE DEF len
    <3> QED
      BY <1>8, <2>2
  <2> HIDE DEF e, len
  <2>5. len \in Nat
    BY <2>2
  <2>6. \A q \in 0..len : c[i + q] = j + q
    <3>1. i \in Nat /\ len \in Nat /\ S \in SUBSET Nat
      BY <1>3, <2>2
    <3>2. InARow(c, i, len)
      BY <1>1, <2>4, <3>1, StretchStays, Zenon
    <3> QED
      BY <3>2 DEF InARow
  <2>7. c[e] = j + len
    BY <2>2, <2>6
  <2>8. SameMessages(ns, j, j + len, ms, i)
    <3> SUFFICES ASSUME NEW k \in j..j + len
                 PROVE  ns[k] = ms[k - j + i]
      BY DEF SameMessages
    <3>0. j \in Nat /\ i \in Nat /\ len \in Nat /\ k \in j..j + len
      BY <1>2, <2>2, <2>3
    <3> DEFINE q == k - j
               p == i + q
    <3>1. q \in 0..len /\ p \in i..i + len /\ j + q = k /\ p = k - j + i
      BY ONLY <3>0
    <3> HIDE DEF q
    <3>2. c[p] = k
      BY <2>6, <3>1
    <3> HIDE DEF p
    <3>3. p \in S
      BY <2>4, <3>1
    <3>4. ns[c[p]] = ms[p]
      BY <1>4, <3>3
    <3> QED
      BY <3>1, <3>2, <3>4
  <2>9. c[e] < m => ns[c[e] + 1].role # "tool"
    <3> SUFFICES ASSUME c[e] < m, ns[c[e] + 1].role = "tool"
                 PROVE  FALSE
      OBVIOUS
    <3> DEFINE l == c[e] + 1
    <3>1. l \in 1..m
      BY <1>2, <2>3
    <3>2. c[e] < l /\ c[e] \in Nat /\ l \in Nat
      BY <2>3
    <3>0. ns[l].role = "tool"
      OBVIOUS
    <3>9. \A x \in Nat : ~(c[e] < x /\ x < l)
      BY <2>3
    <3> HIDE DEF l
    <3>3. PICK q \in S : c[q] = l
      BY <1>4, <3>1
    <3>4. ms[q].role = "tool"
      BY <1>4, <3>0, <3>3
    <3>5. e < q
      <4>1. q < e => c[q] < c[e]
        BY <1>4, <2>2
      <4>2. q # e /\ ~(q < e) /\ q \in Nat
        BY <1>3, <3>2, <3>3, <4>1
      <4> QED
        BY <2>2, <4>2
    <3>6. PICK t \in DOMAIN ms : IsCompleteRound(ms, t) /\ t < q /\ q <= end(t) /\ t..end(t) \subseteq S
      BY <1>7, <3>4
    <3>7. t \in 1..n /\ end(t) \in t..n /\ q \in 1..n
      BY <1>2, <1>3, <1>5
    <3>8. CASE t <= e
      <4>1. e + 1 \in t+1..end(t) /\ e < n
        BY <1>2, <2>2, <3>5, <3>6, <3>7, <3>8
      <4>2. ms[e + 1].role = "tool"
        BY <1>5, <4>1
      <4> QED
        BY <1>5, <4>1, <4>2 DEF e
    <3>10. CASE ~(t <= e)
      <4>1. t \in t..end(t) /\ e < t
        BY <1>2, <2>2, <3>7, <3>10
      <4>2. t \in S
        BY <3>6, <4>1
      <4>3. c[e] < c[t] /\ c[t] < c[q]
        BY <1>4, <2>2, <3>6, <4>1, <4>2
      <4>4. c[t] \in Nat
        BY <1>2, <1>4, <4>2
      <4> QED
        BY <3>3, <3>9, <4>3, <4>4
    <3> QED
      BY <3>8, <3>10
  <2>10. /\ j \in DOMAIN ns /\ j + len <= Len(ns)
         /\ j + len < Len(ns) => ns[j + len + 1].role # "tool"
    BY <1>2, <2>3, <2>7, <2>9 DEF m
  <2>11. ContiguousToolBlockEnd(ms, i) = i + len
    BY <2>2 DEF e, end
  <2> HIDE DEF j
  <2>12. CarriedTo(ns, j, ms, i, len)
    BY <1>8, <2>8, <2>10, <2>11, Zenon DEF CarriedTo
  <2>13. StandsAt(ns, j, RoundAt(ms, i)) /\ ContiguousToolBlockEnd(ns, j) = j + len
    BY <1>2, <2>5, <2>12, RoundMoved
  <2> QED
    BY <2>7, <2>10, <2>13 DEF j, e
<1>9. ASSUME NEW i \in DOMAIN ms, IsCompleteRound(ms, i), ~(i..end(i) \subseteq S)
      PROVE  Elements(RoundAt(ms, i)) \cap Elements(ns) = {}
  <2> DEFINE e == end(i)
             len == e - i
  <2>1. /\ i \in Nat /\ len \in Nat /\ e = i + len /\ i..e \subseteq 1..n
        /\ \A k \in 1..len + 1 : k + i - 1 \in i..e
    <3> HIDE DEF e
    <3>1. e \in Nat /\ i \in Nat /\ i <= e /\ e <= n /\ 1 <= i
      BY <1>2, <1>5 DEF e
    <3> QED
      BY <1>2, <3>1
  <2>2. \A k \in i..e : k \notin S
    BY <1>6, <1>9
  <2>3. \A k \in i..e : ms[k].id \in ids
    BY <1>3, <2>1, <2>2
  <2> HIDE DEF e, len
  <2>4. RoundAt(ms, i) = [k \in 1..len + 1 |-> ms[k + i - 1]]
    <3>1. PartIs(ms, i, len)
      BY <2>1, PartOf
    <3>2. ContiguousToolBlockEnd(ms, i) = i + len
      BY <2>1 DEF e, end
    <3> QED
      BY <3>1, <3>2, Zenon DEF PartIs, RoundAt
  <2>5. \A x \in Elements(RoundAt(ms, i)) : x.id \in ids
    BY <2>1, <2>3, <2>4 DEF Elements
  <2>6. \A x \in Elements(ns) : x.id \notin ids
    <3> SUFFICES ASSUME NEW l \in 1..m
                 PROVE  ns[l].id \notin ids
      BY <1>2 DEF Elements
    <3>1. PICK k \in S : c[k] = l
      BY <1>4
    <3> QED
      BY <1>3, <1>4, <3>1
  <2> QED
    BY <2>5, <2>6
<1>10. ASSUME NEW k \in DOMAIN ns, ns[k].role = "tool"
       PROVE  \E j \in 1..k-1 : IsCompleteRound(ns, j) /\ k <= ContiguousToolBlockEnd(ns, j)
  <2>1. PICK q \in S : c[q] = k
    BY <1>2, <1>4
  <2>2. ms[q].role = "tool"
    BY <1>4, <1>10, <2>1
  <2>3. PICK t \in DOMAIN ms : IsCompleteRound(ms, t) /\ t < q /\ q <= end(t) /\ t..end(t) \subseteq S
    BY <1>7, <2>2
  <2>4. t \in 1..n /\ end(t) \in t..n /\ q \in 1..n
    BY <1>2, <1>3, <1>5
  <2>5. t \in t..end(t) /\ end(t) \in t..end(t)
    BY <1>2, <2>4
  <2>6. t \in S /\ end(t) \in S
    BY <2>3, <2>5
  <2>7. c[t] < k /\ (q = end(t) \/ k < c[end(t)])
    <3>1. c[t] < c[q]
      BY <1>4, <2>3, <2>6
    <3>2. q < end(t) => c[q] < c[end(t)]
      BY <1>4, <2>6
    <3>3. q = end(t) \/ q < end(t)
      BY <1>2, <2>3, <2>4
    <3> QED
      BY <2>1, <3>1, <3>2, <3>3
  <2>8. c[t] \in 1..m /\ c[end(t)] \in 1..m /\ k \in 1..m
    BY <1>2, <1>4, <2>6
  <2>9. c[t] \in 1..k-1 /\ k <= c[end(t)]
    BY <1>2, <2>1, <2>7, <2>8
  <2>10. IsCompleteRound(ns, c[t]) /\ ContiguousToolBlockEnd(ns, c[t]) = c[end(t)]
    BY <1>8, <2>3 DEF StandsAt
  <2> QED
    BY <2>9, <2>10
<1>11. NoStrayResults(ns)
  BY <1>10 DEF NoStrayResults
<1> QED
  BY <1>2, <1>8, <1>9, <1>11

-----------------------------------------------------------------------------
(* Rounds along a batch *)

HistoryOf(s) == s.segs["history"]
HasHistory(s) == "history" \in DOMAIN s.segs /\ IsSequence(HistoryOf(s))

\* What a delta brings for the history are sequences of messages.
MessagesOK(d) == IsSequence(d.messages) /\ (d.round # None => IsSequence(d.round))

\* No segment is replaced or cleared, and no result is added without its round.
AddsOrRemoves(d) ==
    /\ d.op \notin {"replace_segment", "clear_segment", "clear_state"}
    /\ d.op = "append_messages" => \A i \in DOMAIN d.messages : d.messages[i].role # "tool"

\* A round of ms stands in ns or is gone from it.
Stands(ms, round) == \E j \in DOMAIN ms : StandsAt(ms, j, round)
Gone(ms, round) == Elements(round) \cap Elements(ms) = {}

RoundsKept(ms, ns) ==
    /\ NoStrayResults(ns)
    /\ \A round : Stands(ms, round) => Stands(ns, round) \/ Gone(ns, round)

LEMMA AdditionKeeps ==
    ASSUME NEW ms, IsSequence(ms), NoStrayResults(ms), NEW xs, IsSequence(xs), NoStrayResults(xs),
           NEW ns, ns = ms \o xs
    PROVE  IsSequence(ns) /\ RoundsKept(ms, ns)
<1>1. /\ IsSequence(ns) /\ NoStrayResults(ns)
      /\ \A i \in DOMAIN ms : IsCompleteRound(ms, i) => StandsAt(ns, i, RoundAt(ms, i))
  BY AdditionStep
<1>2. ASSUME NEW round, Stands(ms, round)
      PROVE  Stands(ns, round)
  <2>1. PICK j \in DOMAIN ms : StandsAt(ms, j, round)
    BY <1>2 DEF Stands
  <2>2. IsCompleteRound(ms, j) /\ RoundAt(ms, j) = round
    BY <2>1 DEF StandsAt, RoundAt
  <2>3. StandsAt(ns, j, round)
    BY <1>1, <2>2
  <2> QED
    BY <2>3 DEF Stands, StandsAt
<1> QED
  BY <1>1, <1>2 DEF RoundsKept

LEMMA RemovalKeeps ==
    ASSUME NEW ms, IsSequence(ms), NoStrayResults(ms), NEW ids, RemovalKeepsRounds(ms, ids),
           NEW ns, ns = MessagesWithout(ms, ids)
    PROVE  RoundsKept(ms, ns)
<1>1. /\ NoStrayResults(ns)
      /\ \A i \in DOMAIN ms : IsCompleteRound(ms, i) =>
           \/ \E j \in DOMAIN ns : StandsAt(ns, j, RoundAt(ms, i))
           \/ Elements(RoundAt(ms, i)) \cap Elements(ns) = {}
  BY RemovalStep
<1>2. ASSUME NEW round, Stands(ms, round)
      PROVE  Stands(ns, round) \/ Gone(ns, round)
  <2>1. PICK j \in DOMAIN ms : StandsAt(ms, j, round)
    BY <1>2 DEF Stands
  <2>2. IsCompleteRound(ms, j) /\ RoundAt(ms, j) = round
    BY <2>1 DEF StandsAt, RoundAt
  <2> QED
    BY <1>1, <2>2 DEF Stands, Gone
<1> QED
  BY <1>1, <1>2 DEF RoundsKept

LEMMA RoundHasNoStrays ==
    ASSUME NEW ms, IsSequence(ms), RoundComplete(ms)
    PROVE  NoStrayResults(ms)
<1>1. /\ IsCompleteRound(ms, 1) /\ ContiguousToolBlockEnd(ms, 1) = Len(ms)
      /\ ms[1].role = "assistant"
  BY DEF RoundComplete, IsCompleteRound
<1>2. Len(ms) \in Nat /\ DOMAIN ms = 1..Len(ms)
  BY SequenceDomain
<1>3. ASSUME NEW k \in DOMAIN ms, ms[k].role = "tool"
      PROVE  1 \in 1..k-1 /\ k <= Len(ms)
  <2>1. k # 1
    BY <1>1, <1>3
  <2> QED
    BY <1>2, <2>1
<1> QED
  BY <1>1, <1>3 DEF NoStrayResults

LEMMA SegmentSet ==
    ASSUME NEW s, IsState(s), HasHistory(s), NEW g, NEW ms, NEW t, t = WithSegment(s, g, ms)
    PROVE  /\ DOMAIN t.segs = DOMAIN s.segs
           /\ HistoryOf(t) = IF g = "history" THEN ms ELSE HistoryOf(s)
BY DEF WithSegment, IsState, HasHistory, HistoryOf

LEMMA WithoutIsSequence ==
    ASSUME NEW ms, IsSequence(ms), NEW ids
    PROVE  IsSequence(MessagesWithout(ms, ids))
BY StayingPlaced DEF PlacedAt

\* The cases of a delta, by what it makes of the history.
LEMMA DeltaCases ==
    ASSUME NEW s, IsState(s), HasHistory(s), NEW d, NEW t, t = ApplyDelta(s, d), t # None
    PROVE  /\ "history" \in DOMAIN t.segs
           /\ \/ HistoryOf(t) = HistoryOf(s)
              \/ d.op = "append_messages" /\ HistoryOf(t) = HistoryOf(s) \o d.messages
              \/ /\ d.op = "append_tool_round" /\ d.round # None /\ RoundComplete(d.round)
                 /\ HistoryOf(t) = HistoryOf(s) \o d.round
              \/ /\ d.op = "remove_messages" /\ RemovalKeepsRounds(HistoryOf(s), Given(d.messageIDs))
                 /\ HistoryOf(t) = MessagesWithout(HistoryOf(s), Given(d.messageIDs))
              \/ d.op = "replace_segment" /\ HistoryOf(t) = d.messages
              \/ d.op \in {"clear_segment", "clear_state"} /\ HistoryOf(t) = << >>
<1>1. DeltaIDsValid(d)
  BY DEF ApplyDelta
<1>2. "history" \in DOMAIN s.segs
  BY DEF HasHistory
<1>3. CASE d.op = "append_messages"
  <2>1. t = WithSegment(s, d.segment, s.segs[d.segment] \o d.messages)
    BY <1>1, <1>3 DEF ApplyDelta
  <2>2. /\ DOMAIN t.segs = DOMAIN s.segs
        /\ HistoryOf(t) = IF d.segment = "history" THEN s.segs[d.segment] \o d.messages ELSE HistoryOf(s)
    BY <2>1, SegmentSet
  <2> QED
    BY <1>2, <1>3, <2>2 DEF HistoryOf
<1>4. CASE d.op = "replace_segment"
  <2>1. t = WithSegment(s, d.segment, d.messages)
    BY <1>1, <1>4 DEF ApplyDelta
  <2> QED
    BY <1>2, <1>4, <2>1, SegmentSet
<1>5. CASE d.op = "clear_segment"
  <2>1. t = WithSegment(s, d.segment, << >>)
    BY <1>1, <1>5 DEF ApplyDelta
  <2> QED
    BY <1>2, <1>5, <2>1, SegmentSet
<1>6. CASE d.op = "remove_messages"
  <2> DEFINE ms == s.segs[d.segment]
             ids == Given(d.messageIDs)
  <2>1. t = RemoveMessages(s, d)
    BY <1>1, <1>6 DEF ApplyDelta
  <2>2. /\ d.segment = "history" => RemovalKeepsRounds(ms, ids)
        /\ t = WithSegment(s, d.segment, MessagesWithout(ms, ids))
    BY <2>1 DEF RemoveMessages
  <2>3. /\ DOMAIN t.segs = DOMAIN s.segs
        /\ HistoryOf(t) = IF d.segment = "history" THEN MessagesWithout(ms, ids) ELSE HistoryOf(s)
    BY <2>2, SegmentSet
  <2> QED
    BY <1>2, <1>6, <2>2, <2>3 DEF HistoryOf
<1>7. CASE d.op = "append_tool_round"
  <2> DEFINE seg == "history"
             ms == s.segs["history"] \o d.round
  <2>1. d.round # None /\ RoundComplete(d.round) /\ t = WithSegment(s, seg, ms)
    BY <1>1, <1>7 DEF ApplyDelta
  <2>2. seg = "history" /\ ms = HistoryOf(s) \o d.round
    BY DEF HistoryOf
  <2> HIDE DEF seg, ms
  <2>3. /\ DOMAIN t.segs = DOMAIN s.segs
        /\ HistoryOf(t) = IF seg = "history" THEN ms ELSE HistoryOf(s)
    BY <2>1, SegmentSet
  <2> QED
    BY <1>2, <1>7, <2>1, <2>2, <2>3
<1>8. CASE d.op = "clear_state"
  <2>1. t = [EmptyState EXCEPT !.rev = s.rev]
    BY <1>1, <1>8 DEF ApplyDelta
  <2>2. t.segs = EmptySnapshot
    BY <2>1 DEF EmptyState
  <2> QED
    BY <1>8, <2>2 DEF HistoryOf, EmptySnapshot, Segments
<1>9. CASE d.op \notin {"append_messages", "replace_segment", "clear_segment", "remove_messages",
                        "append_tool_round", "clear_state"}
  <2>1. t = s \/ \E arts : t = [s EXCEPT !.arts = arts]
    <3>1. CASE d.op = "upsert_artifact"
      BY <1>1, <3>1 DEF ApplyDelta
    <3>2. CASE d.op = "remove_artifact"
      BY <1>1, <3>2 DEF ApplyDelta
    <3>3. CASE d.op \notin {"upsert_artifact", "remove_artifact"}
      BY <1>1, <1>9, <3>3 DEF ApplyDelta
    <3> QED
      BY <3>1, <3>2, <3>3
  <2>2. t.segs = s.segs
    BY <2>1 DEF IsState
  <2> QED
    BY <1>2, <2>2 DEF HistoryOf
<1> QED
  BY <1>3, <1>4, <1>5, <1>6, <1>7, <1>8, <1>9

LEMMA DeltaKeepsHistory ==
    ASSUME NEW s, IsState(s), HasHistory(s), NEW d, MessagesOK(d), NEW t, t = ApplyDelta(s, d), t # None
    PROVE  HasHistory(t)
<1> DEFINE h == HistoryOf(s)
<1>1. IsSequence(h)
  BY DEF HasHistory
<1>2. IsSequence(d.messages) /\ (d.round # None => IsSequence(d.round))
  BY DEF MessagesOK
<1> HIDE DEF h
<1>3. IsSequence(h \o d.messages) /\ (d.round # None => IsSequence(h \o d.round))
  BY <1>1, <1>2, JoinedIs DEF Joins
<1>4. IsSequence(MessagesWithout(h, Given(d.messageIDs)))
  BY <1>1, WithoutIsSequence
<1>5. IsSequence(<< >>)
  BY DEF IsSequence
<1> QED
  BY <1>1, <1>2, <1>3, <1>4, <1>5, DeltaCases DEF HasHistory, h

LEMMA DeltaKeepsRounds ==
    ASSUME NEW s, IsState(s), HasHistory(s), NoStrayResults(HistoryOf(s)),
           NEW d, MessagesOK(d), AddsOrRemoves(d), NEW t, t = ApplyDelta(s, d), t # None
    PROVE  RoundsKept(HistoryOf(s), HistoryOf(t))
<1> DEFINE h == HistoryOf(s)
           g == HistoryOf(t)
<1>1. IsSequence(h) /\ NoStrayResults(h)
  BY DEF HasHistory
<1>2. IsSequence(d.messages) /\ (d.round # None => IsSequence(d.round))
  BY DEF MessagesOK
<1> SUFFICES RoundsKept(h, g)
  OBVIOUS
<1> HIDE DEF h, g
<1>3. CASE g = h
  BY <1>1, <1>3 DEF RoundsKept
<1>4. CASE d.op = "append_messages" /\ g = h \o d.messages
  <2>1. NoStrayResults(d.messages)
    BY <1>4 DEF AddsOrRemoves, NoStrayResults
  <2> QED
    BY <1>1, <1>2, <1>4, <2>1, AdditionKeeps
<1>5. CASE d.round # None /\ RoundComplete(d.round) /\ g = h \o d.round
  <2>1. NoStrayResults(d.round)
    BY <1>2, <1>5, RoundHasNoStrays
  <2> QED
    BY <1>1, <1>2, <1>5, <2>1, AdditionKeeps
<1>6. CASE RemovalKeepsRounds(h, Given(d.messageIDs)) /\ g = MessagesWithout(h, Given(d.messageIDs))
  BY <1>1, <1>6, RemovalKeeps
<1>7. d.op \notin {"replace_segment", "clear_segment", "clear_state"}
  BY DEF AddsOrRemoves
<1> QED
  BY <1>3, <1>4, <1>5, <1>6, <1>7, DeltaCases DEF h, g

\* The histories on the way of a batch.
HistoryBatch(ds) == \A k \in DOMAIN ds : MessagesOK(ds[k])

LEMMA PathHistories ==
    ASSUME NEW s, HasHistory(s), NEW ds, IsSequence(ds), HistoryBatch(ds), NEW p, Whole(p, s, ds)
    PROVE  \A i \in 1..Len(ds) + 1 : HasHistory(p[i])
<1> DEFINE n == Len(ds)
           S == {i \in Nat : i <= n => HasHistory(p[i + 1])}
<1>1. n \in Nat /\ DOMAIN ds = 1..n
  BY SequenceDomain
<1> HIDE DEF n
<1>2. /\ p[1] = s
      /\ \A i \in 1..n : p[i + 1] = ApplyDelta(p[i], ds[i])
      /\ \A i \in 1..n + 1 : p[i] # None /\ IsState(p[i])
  BY <1>1 DEF Whole, Along, n
<1>3. 0 \in S
  BY <1>2
<1>4. ASSUME NEW i \in Nat, i \in S
      PROVE  i + 1 \in S
  <2> DEFINE m == i + 1
             k == m + 1
  <2> SUFFICES ASSUME m <= n
               PROVE  HasHistory(p[k])
    OBVIOUS
  <2>1. m \in 1..n /\ k \in 1..n + 1 /\ m \in 1..n + 1 /\ i <= n
    BY <1>1
  <2>2. HasHistory(p[m])
    BY <1>4, <2>1
  <2>3. p[k] = ApplyDelta(p[m], ds[m])
    BY <1>2, <2>1
  <2> HIDE DEF k, m, S
  <2>4. p[k] # None /\ IsState(p[m])
    BY <1>2, <2>1
  <2>5. MessagesOK(ds[m])
    BY <1>1, <2>1 DEF HistoryBatch
  <2> QED
    BY <2>2, <2>3, <2>4, <2>5, DeltaKeepsHistory
<1> HIDE DEF S
<1>5. Nat \subseteq S
  BY <1>3, <1>4, NatSetInduction
<1>6. ASSUME NEW i \in 1..n + 1
      PROVE  HasHistory(p[i])
  <2>1. i - 1 \in Nat /\ i - 1 <= n /\ (i - 1) + 1 = i
    BY <1>1
  <2>2. i - 1 \in S
    BY <1>5, <2>1
  <2> QED
    BY <2>1, <2>2 DEF S
<1> QED
  BY <1>6 DEF n

\* A round of the first history stands in the last one, or was gone on the way.
LEMMA RoundsOnTheWay ==
    ASSUME NEW s, HasHistory(s), NEW ds, IsSequence(ds), HistoryBatch(ds), NEW p, Whole(p, s, ds),
           \A k \in DOMAIN ds : AddsOrRemoves(ds[k]),
           NoStrayResults(HistoryOf(s)), NEW round
    PROVE  LET q == p[Len(ds) + 1]
           IN  /\ NoStrayResults(HistoryOf(q))
               /\ Stands(HistoryOf(s), round) =>
                  \/ Stands(HistoryOf(q), round)
                  \/ \E k \in 1..Len(ds) + 1 : Gone(HistoryOf(p[k]), round)
<1> DEFINE n == Len(ds)
           Follows(m) ==
             /\ NoStrayResults(HistoryOf(p[m]))
             /\ Stands(HistoryOf(s), round) =>
                  \/ Stands(HistoryOf(p[m]), round)
                  \/ \E k \in 1..m : Gone(HistoryOf(p[k]), round)
           S == {i \in Nat : i <= n => Follows(i + 1)}
<1>1. n \in Nat /\ DOMAIN ds = 1..n
  BY SequenceDomain
<1>0. \A i \in 1..n + 1 : HasHistory(p[i])
  BY PathHistories
<1>2. /\ p[1] = s
      /\ \A i \in 1..n : p[i + 1] = ApplyDelta(p[i], ds[i])
      /\ \A i \in 1..n + 1 : p[i] # None /\ IsState(p[i])
  BY <1>1 DEF Whole, Along
<1> HIDE DEF n
<1>3. 0 \in S
  BY <1>2
<1>4. ASSUME NEW i \in Nat, i \in S
      PROVE  i + 1 \in S
  <2> DEFINE m == i + 1
             k == m + 1
  <2> SUFFICES ASSUME m <= n
               PROVE  Follows(k)
    OBVIOUS
  <2>1. m \in 1..n /\ k \in 1..n + 1 /\ m \in 1..n + 1 /\ i <= n /\ k \in 1..k /\ 1..m \subseteq 1..k
    BY <1>1
  <2>2. Follows(m)
    <3> HIDE DEF Follows
    <3> QED
      BY <1>4, <2>1
  <2>3. p[k] = ApplyDelta(p[m], ds[m])
    BY <1>2, <2>1
  <2> HIDE DEF k, m, S
  <2>4. p[k] # None /\ IsState(p[m]) /\ HasHistory(p[m])
    BY <1>0, <1>2, <2>1
  <2>5. MessagesOK(ds[m]) /\ AddsOrRemoves(ds[m])
    BY <1>1, <2>1 DEF HistoryBatch
  <2>6. RoundsKept(HistoryOf(p[m]), HistoryOf(p[k]))
    BY <2>2, <2>3, <2>4, <2>5, DeltaKeepsRounds
  <2> QED
    BY <2>1, <2>2, <2>6 DEF RoundsKept
<1> HIDE DEF S
<1>5. Nat \subseteq S
  BY <1>3, <1>4, NatSetInduction
<1>6. Follows(n + 1)
  <2> HIDE DEF Follows
  <2> QED
    BY <1>1, <1>5 DEF S
<1> QED
  BY <1>6 DEF n

\* What is sent brings messages in sequences, also over the wire.
LEMMA SentHistories ==
    ASSUME HandOK, NEW ds \in Batches(hand), NEW sent,
           sent = ds \/ sent = [k \in DOMAIN ds |-> OverWire(ds[k])]
    PROVE  HistoryBatch(sent)
<1>1. \A k \in DOMAIN ds :
        /\ DOMAIN ds[k] = DeltaFields
        /\ IsSequence(ds[k].messages)
        /\ ds[k].round # None => IsSequence(ds[k].round)
  BY BatchesAssumption DEF HandOK, IsSequence
<1>2. HistoryBatch(ds)
  BY <1>1 DEF HistoryBatch, MessagesOK
<1>3. CASE sent = [k \in DOMAIN ds |-> OverWire(ds[k])]
  <2>1. \A k \in DOMAIN ds : OverWire(ds[k]).messages = ds[k].messages /\ OverWire(ds[k]).round = ds[k].round
    BY <1>1 DEF OverWire, DeltaFields
  <2>2. \A k \in DOMAIN ds : MessagesOK(OverWire(ds[k]))
    BY <1>2, <2>1 DEF HistoryBatch, MessagesOK
  <2> QED
    BY <1>3, <2>2 DEF HistoryBatch
<1> QED
  BY <1>2, <1>3

\* A complete round that stands is there message by message.
LEMMA StandingIsContiguous ==
    ASSUME NEW ms, IsSequence(ms), NEW round, Stands(ms, round)
    PROVE  \E j \in 1..Len(ms) - Len(round) + 1 : SubSeq(ms, j, j + Len(round) - 1) = round
<1> DEFINE n == Len(ms)
<1>1. n \in Nat /\ DOMAIN ms = 1..n
  BY SequenceDomain
<1>2. PICK j \in 1..n : StandsAt(ms, j, round)
  BY <1>1 DEF Stands
<1> DEFINE e == ContiguousToolBlockEnd(ms, j)
           len == e - j
<1>3. e \in j..n
  BY <1>1, <1>2, BlockEnd
<1>4. round = SubSeq(ms, j, e)
  BY <1>2 DEF StandsAt
<1> HIDE DEF n, e
<1>5. len \in Nat /\ e = j + len /\ j \in Nat
  BY <1>1, <1>3
<1>6. round = [k \in 1..len + 1 |-> ms[k + j - 1]]
  <2> HIDE DEF len
  <2>1. PartIs(ms, j, len)
    <3>1. j \in Nat /\ len \in Nat
      BY <1>5
    <3> QED
      BY <3>1, PartOf
  <2> QED
    BY <1>4, <1>5, <2>1, Zenon DEF PartIs
<1>7. Len(round) = len + 1
  <2> HIDE DEF len
  <2> QED
    BY <1>5, <1>6
<1>8. j \in 1..n - Len(round) + 1 /\ j + Len(round) - 1 = e
  BY <1>1, <1>3, <1>5, <1>7
<1> QED
  BY <1>4, <1>8 DEF n

HistoryInv == HasHistory(state) /\ RoundsSurvive

LEMMA CommitStateHistory ==
    ASSUME Inv, HistoryInv, CommitState
    PROVE  HistoryInv'
<1>1. PICK ds \in Batches(hand), wire \in BOOLEAN :
         LET sent == IF wire THEN [k \in DOMAIN ds |-> OverWire(ds[k])] ELSE ds
             commit == Checkpoint(state, sent, Profile)
         IN  /\ commit.next # None
             /\ state' = commit.next
             /\ last' = [deltas |-> sent, path |-> commit.path]
  BY DEF CommitState
<1> DEFINE sent == IF wire THEN [k \in DOMAIN ds |-> OverWire(ds[k])] ELSE ds
           p == ApplyDeltas(state, sent)
           n == Len(sent)
<1>2. BatchOK(sent) /\ IsSequence(sent) /\ HistoryBatch(sent)
  BY SentBatch, SentHistories DEF Inv, BatchOK
<1>3. /\ state' # None /\ state' = Checkpoint(state, sent, Profile).next
      /\ last'.deltas = sent /\ last'.path = p
  BY <1>1 DEF Checkpoint
<1> HIDE DEF sent
<1>4. Last(p) # None
  BY <1>3 DEF Checkpoint
<1>5. Whole(p, state, sent)
  BY <1>2, <1>4, PathArtifacts DEF Inv, StateOK
<1> HIDE DEF p
<1>6. Last(p) = p[n + 1] /\ n \in Nat /\ DOMAIN p = 1..n + 1 /\ p[1] = state /\ DOMAIN sent = 1..n
  BY <1>2, <1>5, SequenceDomain DEF Whole, Along, Last
<1>7. IsState(p[n + 1])
  BY <1>5, <1>6 DEF Whole
<1>8. HistoryOf(state') = HistoryOf(p[n + 1]) /\ state'.segs = p[n + 1].segs
  BY <1>3, <1>6, <1>7, CheckpointEffect DEF p, HistoryOf
<1>9. HasHistory(p[n + 1])
  <2>1. n + 1 \in 1..n + 1
    BY <1>6
  <2> QED
    BY <1>2, <1>5, <2>1, PathHistories DEF HistoryInv
<1>10. HasHistory(state')
  BY <1>8, <1>9 DEF HasHistory
<1>11. ASSUME AddsAndRemoves(sent), NoStrayResults(HistoryOf(state)),
              NEW round
       PROVE  /\ NoStrayResults(HistoryOf(state'))
              /\ Stands(HistoryOf(state), round) =>
                 \/ Stands(HistoryOf(state'), round)
                 \/ \E k \in DOMAIN p : Gone(HistoryOf(p[k]), round)
  <2>1. \A k \in DOMAIN sent : AddsOrRemoves(sent[k])
    BY <1>11 DEF AddsAndRemoves, AddsOrRemoves
  <2> QED
    BY <1>2, <1>5, <1>6, <1>8, <1>11, <2>1, RoundsOnTheWay DEF HistoryInv
<1>12. RoundsSurvive'
  <2> DEFINE old == HistoryOf(state)
             new == HistoryOf(state')
  <2>1. SUFFICES ASSUME AddsAndRemoves(sent), NoStrayResults(old)
                 PROVE  /\ NoStrayResults(new)
                        /\ \A i \in DOMAIN old : IsCompleteRound(old, i) =>
                             \/ \E j \in 1..Len(new) - Len(RoundAt(old, i)) + 1 :
                                   SubSeq(new, j, j + Len(RoundAt(old, i)) - 1) = RoundAt(old, i)
                             \/ \E k \in DOMAIN p : Elements(RoundAt(old, i)) \cap Elements(HistoryOf(p[k])) = {}
    BY <1>3, <1>6, Zenon DEF RoundsSurvive, RoundAt, HistoryOf
  <2>2. ASSUME NEW i \in DOMAIN old, IsCompleteRound(old, i)
        PROVE  \/ \E j \in 1..Len(new) - Len(RoundAt(old, i)) + 1 :
                     SubSeq(new, j, j + Len(RoundAt(old, i)) - 1) = RoundAt(old, i)
               \/ \E k \in DOMAIN p : Elements(RoundAt(old, i)) \cap Elements(HistoryOf(p[k])) = {}
    <3> DEFINE round == RoundAt(old, i)
    <3>1. Stands(old, round)
      BY <2>2 DEF Stands, StandsAt, RoundAt
    <3> HIDE DEF round
    <3>2. Stands(new, round) \/ \E k \in DOMAIN p : Gone(HistoryOf(p[k]), round)
      BY <1>11, <2>1, <3>1
    <3>3. IsSequence(new)
      BY <1>10 DEF HasHistory
    <3> HIDE DEF new
    <3>4. Stands(new, round) =>
            \E j \in 1..Len(new) - Len(round) + 1 : SubSeq(new, j, j + Len(round) - 1) = round
      BY <3>3, StandingIsContiguous
    <3> QED
      BY <3>2, <3>4, Zenon DEF Gone, round
  <2>3. NoStrayResults(new)
    BY <1>11, <2>1
  <2> QED
    BY <2>2, <2>3, Zenon
<1> QED
  BY <1>10, <1>12 DEF HistoryInv

\* No other step commits anything.
LEMMA OtherStepsHistory ==
    ASSUME HistoryInv, [Next]_vars, ~CommitState
    PROVE  HistoryInv'
<1>1. state' = state /\ (last' = last \/ last' = NoCommit)
  <2>1. CASE ProjectArtifact \/ ProjectHistoricalArguments
    BY <2>1 DEF ProjectArtifact, ProjectHistoricalArguments, Offload
  <2>2. CASE SelectBlob
    BY <2>2 DEF SelectBlob, Return, conversation
  <2>3. CASE PutBlob
    BY <2>3 DEF PutBlob, Return, conversation
  <2>4. CASE Build
    BY <2>4 DEF Build, Return, conversation
  <2>5. CASE Resolve
    BY <2>5 DEF Resolve
  <2>6. CASE UNCHANGED vars
    BY <2>6 DEF vars
  <2> QED
    BY <2>1, <2>2, <2>3, <2>4, <2>5, <2>6 DEF Next
<1>2. HasHistory(state')
  BY <1>1 DEF HistoryInv
<1>3. CASE last' = NoCommit
  BY <1>2, <1>3 DEF HistoryInv, RoundsSurvive
<1>4. CASE last' = last
  BY <1>1, <1>2, <1>4 DEF HistoryInv, RoundsSurvive
<1> QED
  BY <1>1, <1>3, <1>4

\* A batch that adds to the history and takes from it leaves no result without
\* its call: the calls and results of a complete round stay side by side, or all
\* of them are gone before any of them may come back.
THEOREM RoundsStayWhole == Spec => []RoundsSurvive
<1>1. Init => HistoryInv
  BY DEF Init, HistoryInv, RoundsSurvive, HasHistory, HistoryOf, EmptyState, EmptySnapshot, Segments, IsSequence
<1>2. Inv /\ HistoryInv /\ [Next]_vars => HistoryInv'
  BY CommitStateHistory, OtherStepsHistory
<1>3. HistoryInv => RoundsSurvive
  BY DEF HistoryInv
<1> QED
  BY <1>1, <1>2, <1>3, InvHolds, PTL DEF Spec

-----------------------------------------------------------------------------
(* Artifacts with identities of their own *)

LEMMA SameSequences ==
    ASSUME NEW s
    PROVE  s \in Seq(Elements(s)) <=> IsSequence(s)
<1>1. Elements(s) = Range(s)
  BY DEF Elements, Range
<1> QED
  BY <1>1 DEF IsSequence

\* What is kept are the elements of both, each from a place of its own.
LEMMA KeptElements ==
    ASSUME NEW s, IsSequence(s), NEW S
    PROVE  /\ IsSequence(Kept(s, S))
           /\ Elements(Kept(s, S)) = Elements(s) \cap S
<1> DEFINE t == Kept(s, S)
<1>1. PICK c : PlacedAt(s, {k \in DOMAIN s : s[k] \in S}, t, c)
  BY KeptPlaced
<1> HIDE DEF t
<1>2. IsSequence(t) /\ DOMAIN t = 1..Len(t)
  BY <1>1, SequenceDomain DEF PlacedAt
<1>3. \A x \in Elements(t) : x \in Elements(s) \cap S
  BY <1>1, <1>2 DEF PlacedAt, Elements
<1>4. \A x \in Elements(s) \cap S : x \in Elements(t)
  BY <1>1, <1>2 DEF PlacedAt, Elements
<1> QED
  BY <1>2, <1>3, <1>4 DEF t

\* What stands at i and j of t stands in s, and at different places if i # j.
OnceIn(s, t, i, j) ==
    \E k \in DOMAIN s : \E l \in DOMAIN s : s[k] = t[i] /\ s[l] = t[j] /\ (k = l => i = j)

LEMMA KeptOnce ==
    ASSUME NEW s, IsSequence(s), NEW S, NEW t, t = Kept(s, S), NEW i \in DOMAIN t, NEW j \in DOMAIN t
    PROVE  OnceIn(s, t, i, j)
<1> DEFINE P == {k \in DOMAIN s : s[k] \in S}
<1>1. PICK c : PlacedAt(s, P, t, c)
  BY KeptPlaced
<1>2. IsSequence(t) /\ DOMAIN t = 1..Len(t)
  BY <1>1, SequenceDomain DEF PlacedAt
<1>3. PICK k \in P, l \in P : c[k] = i /\ c[l] = j
  BY <1>1, <1>2 DEF PlacedAt
<1>4. k \in DOMAIN s /\ l \in DOMAIN s
  OBVIOUS
<1>5. s[k] = t[i] /\ s[l] = t[j] /\ (k = l => i = j)
  BY <1>1, <1>3 DEF PlacedAt
<1> QED
  BY <1>4, <1>5 DEF OnceIn

\* Artifacts that have identities, each its own.
IsArtifact(a) == "id" \in DOMAIN a /\ a.id \in ArtifactIdentities
Distinct(as) ==
    /\ IsSequence(as)
    /\ \A i \in DOMAIN as : IsArtifact(as[i])
    /\ \A i, j \in DOMAIN as : as[i].id = as[j].id => i = j

LEMMA KeptDistinct ==
    ASSUME NEW q, Distinct(q), NEW S, NEW t, t = Kept(q, S)
    PROVE  Distinct(t) /\ Elements(t) \subseteq Elements(q)
<1>0. IsSequence(q)
  BY DEF Distinct
<1>1. IsSequence(t) /\ Elements(t) \subseteq Elements(q)
  BY <1>0, KeptElements
<1>2. ASSUME NEW i \in DOMAIN t
      PROVE  IsArtifact(t[i])
  <2>1. t[i] \in Elements(q)
    BY <1>1 DEF Elements
  <2> QED
    BY <2>1 DEF Distinct, Elements
<1>3. ASSUME NEW i \in DOMAIN t, NEW j \in DOMAIN t, t[i].id = t[j].id
      PROVE  i = j
  <2>1. OnceIn(q, t, i, j)
    BY <1>0, KeptOnce
  <2>2. PICK k \in DOMAIN q, l \in DOMAIN q : q[k] = t[i] /\ q[l] = t[j] /\ (k = l => i = j)
    BY <2>1 DEF OnceIn
  <2> QED
    BY <1>3, <2>2 DEF Distinct
<1> QED
  BY <1>1, <1>2, <1>3 DEF Distinct

\* What an upsert makes of the artifacts before it.
UpsertIs(before, new, after) ==
    /\ Distinct(after)
    /\ \A j \in DOMAIN after : after[j].id # new.id => after[j] \in Elements(before)
    /\ \E j \in DOMAIN after :
         /\ after[j].id = new.id
         /\ \/ after[j] = new
            \/ \E i \in DOMAIN before : /\ before[i].id = new.id /\ new.life # "ephemeral"
                                        /\ after[j] = MergeArtifact(before[i], new)

LEMMA MergedID ==
    ASSUME NEW old, NEW new, IsArtifact(old), IsArtifact(new), old.id = new.id
    PROVE  LET a == MergeArtifact(old, new) IN IsArtifact(a) /\ a.id = new.id
BY DEF MergeArtifact, AppendArtifactPayload, IsArtifact

LEMMA ElementSet ==
    ASSUME NEW as, Distinct(as), NEW new, IsArtifact(new),
           \A i \in DOMAIN as : as[i].id # new.id,
           NEW t, WithOne(as, new, t)
    PROVE  /\ Distinct(t) /\ DOMAIN t = 1..Len(as) + 1 /\ t[Len(as) + 1] = new
           /\ \A j \in DOMAIN as : j \in DOMAIN t /\ t[j] = as[j]
           /\ \A j \in DOMAIN t : j \in DOMAIN as \/ j = Len(as) + 1
<1>1. PICK n \in Nat : n = Len(as) /\ DOMAIN as = 1..n
  BY SequenceDomain DEF Distinct
<1>2. IsSequence(t) /\ DOMAIN t = 1..n + 1 /\ t[n + 1] = new
  BY <1>1, SequenceDomain DEF WithOne
<1>3. 1..n \subseteq 1..n + 1 /\ \A j \in 1..n + 1 : j \in 1..n \/ j = n + 1
  OBVIOUS
<1>4. \A j \in DOMAIN as : j \in DOMAIN t /\ t[j] = as[j]
  BY <1>1, <1>2, <1>3 DEF WithOne
<1>5. \A j \in DOMAIN t : j \in DOMAIN as \/ j = n + 1
  BY <1>1, <1>2, <1>3
<1>6. \A i \in DOMAIN t : IsArtifact(t[i])
  BY <1>2, <1>4, <1>5 DEF Distinct
<1>7. \A i, j \in DOMAIN t : t[i].id = t[j].id => i = j
  BY <1>2, <1>4, <1>5 DEF Distinct
<1> QED
  BY <1>1, <1>2, <1>4, <1>5, <1>6, <1>7 DEF Distinct

LEMMA ElementReplaced ==
    ASSUME NEW as, Distinct(as), NEW i \in DOMAIN as, NEW a, IsArtifact(a), a.id = as[i].id,
           NEW t, t = [as EXCEPT ![i] = a]
    PROVE  /\ Distinct(t) /\ DOMAIN t = DOMAIN as /\ t[i] = a
           /\ \A j \in DOMAIN as \ {i} : t[j] = as[j]
<1>1. IsSequence(as) /\ Len(as) \in Nat /\ DOMAIN as = 1..Len(as)
  BY SequenceDomain DEF Distinct
<1>2. DOMAIN t = DOMAIN as /\ t[i] = a /\ \A j \in DOMAIN as \ {i} : t[j] = as[j]
  OBVIOUS
<1>6. \A j \in DOMAIN t : t[j].id = as[j].id
  BY <1>2
<1>3. IsSequence(t)
  <2>1. as \in Seq(Range(as) \cup {a}) /\ i \in 1..Len(as)
    BY <1>1, SeqMonotonic DEF IsSequence
  <2>2. t \in Seq(Range(as) \cup {a})
    <3> DEFINE R == Range(as) \cup {a}
    <3>1. as \in Seq(R) /\ a \in R /\ i \in 1..Len(as)
      BY <2>1
    <3> HIDE DEF R
    <3>2. [as EXCEPT ![i] = a] \in Seq(R)
      BY <3>1, ExceptSeq
    <3> QED
      BY <3>2 DEF R
  <2> QED
    BY <2>2, SequenceOf
<1>4. \A j \in DOMAIN t : IsArtifact(t[j])
  BY <1>2 DEF Distinct
<1>5. ASSUME NEW j \in DOMAIN t, NEW k \in DOMAIN t, t[j].id = t[k].id
      PROVE  j = k
  <2>1. j \in DOMAIN as /\ k \in DOMAIN as /\ as[j].id = as[k].id
    BY <1>2, <1>5, <1>6
  <2> QED
    BY <2>1 DEF Distinct
<1> QED
  BY <1>2, <1>3, <1>4, <1>5 DEF Distinct

LEMMA UpsertDistinct ==
    ASSUME NEW as, Distinct(as), NEW new, IsArtifact(new)
    PROVE  UpsertIs(as, new, UpsertArtifact(as, new))
<1> DEFINE T == {a \in Elements(as) : a.id = new.id \/ OriginKey(a) # OriginKey(new)}
           kept == IF new.policy = "replace" /\ HasOrigin(new) THEN Kept(as, T) ELSE as
           same == {i \in DOMAIN kept : kept[i].id = new.id}
           i == Min(same)
           a == IF new.life = "ephemeral" THEN new ELSE MergeArtifact(kept[i], new)
           after == UpsertArtifact(as, new)
<1>1. Distinct(kept) /\ Elements(kept) \subseteq Elements(as)
  BY KeptDistinct
<1>2. new.id # NoID
  BY IdentitiesAssumption DEF IsArtifact
<1>3. after = IF new.id = NoID \/ same = {} THEN Append(kept, new) ELSE [kept EXCEPT ![i] = a]
  BY DEF UpsertArtifact
<1> HIDE DEF after, kept, a
<1>4. CASE same = {}
  <2>1. after = Append(kept, new)
    BY <1>3, <1>4
  <2>2. /\ Distinct(after) /\ Len(kept) + 1 \in DOMAIN after /\ after[Len(kept) + 1] = new
        /\ \A j \in DOMAIN after : (j \in DOMAIN kept /\ after[j] = kept[j]) \/ j = Len(kept) + 1
    <3>1. \A k \in DOMAIN kept : kept[k].id # new.id
      BY <1>4
    <3>2. Len(kept) \in Nat
      BY <1>1, SequenceDomain DEF Distinct
    <3>3. WithOne(kept, new, after)
      BY <1>1, <2>1, OneAppended DEF Distinct
    <3>4. Len(kept) + 1 \in 1..Len(kept) + 1
      BY <3>2
    <3>5. /\ Distinct(after) /\ DOMAIN after = 1..Len(kept) + 1 /\ after[Len(kept) + 1] = new
          /\ \A j \in DOMAIN kept : j \in DOMAIN after /\ after[j] = kept[j]
          /\ \A j \in DOMAIN after : j \in DOMAIN kept \/ j = Len(kept) + 1
      BY <1>1, <3>1, <3>3, ElementSet
    <3> QED
      BY <3>4, <3>5
  <2>3. \A j \in DOMAIN after : after[j].id # new.id => after[j] \in Elements(as)
    BY <1>1, <2>2 DEF Elements
  <2> QED
    BY <2>2, <2>3 DEF UpsertIs, after
<1>5. CASE same # {}
  <2>1. i \in same
    <3>1. same \subseteq Nat
      BY <1>1, SequenceDomain DEF Distinct
    <3> HIDE DEF same
    <3> QED
      BY <1>5, <3>1, MinOf
  <2>2. i \in DOMAIN kept /\ kept[i].id = new.id
    BY <2>1
  <2>3. IsArtifact(kept[i]) /\ kept[i] \in Elements(as)
    BY <1>1, <2>2 DEF Distinct, Elements
  <2> HIDE DEF i, same
  <2>4. IsArtifact(a) /\ a.id = new.id
    BY <2>2, <2>3, MergedID DEF a
  <2>5. after = [kept EXCEPT ![i] = a]
    BY <1>2, <1>3, <1>5
  <2>6. /\ Distinct(after) /\ DOMAIN after = DOMAIN kept /\ after[i] = a
        /\ \A j \in DOMAIN kept \ {i} : after[j] = kept[j]
    BY <1>1, <2>2, <2>4, <2>5, ElementReplaced
  <2>7. \A j \in DOMAIN after : after[j].id # new.id => after[j] \in Elements(as)
    BY <1>1, <2>4, <2>6 DEF Elements
  <2>8. PICK k \in DOMAIN as : as[k] = kept[i]
    BY <2>3 DEF Elements
  <2>9. a = new \/ (new.life # "ephemeral" /\ a = MergeArtifact(as[k], new))
    BY <2>8 DEF a
  <2> QED
    BY <2>2, <2>4, <2>6, <2>7, <2>8, <2>9 DEF UpsertIs, after
<1> QED
  BY <1>4, <1>5

-----------------------------------------------------------------------------
(* Folds over the artifacts and the arguments of a request *)

\* The folds of the models, by what they make.
Folded(fold, v, x) ==
    CASE fold = "artifacts" -> UpsertArtifact(v, x)
      [] fold = "arguments" -> OffloadArgument(v, x)

\* f is the fold of s from v over the subsets of D, the last index first.
IsFold(fold, f, D, v, s) ==
    f = [x \in SUBSET D |-> IF x = {} THEN v ELSE Folded(fold, f[x \ {Max(x)}], s[Max(x)])]

LEMMA IsFoldExtends ==
    ASSUME NEW fold, NEW k \in Nat, NEW v, NEW s, NEW f, IsFold(fold, f, 1..k, v, s)
    PROVE  \E g : IsFold(fold, g, 1..k + 1, v, s)
<1> DEFINE g == [x \in SUBSET (1..k + 1) |->
                   IF k + 1 \notin x THEN f[x] ELSE Folded(fold, f[x \ {k + 1}], s[k + 1])]
           body(x) == IF x = {} THEN v ELSE Folded(fold, g[x \ {Max(x)}], s[Max(x)])
<1>1. ASSUME NEW x \in SUBSET (1..k + 1)
      PROVE  g[x] = body(x)
  <2>1. CASE k + 1 \notin x
    <3>1. x \in SUBSET (1..k)
      BY <2>1
    <3>2. f[x] = IF x = {} THEN v ELSE Folded(fold, f[x \ {Max(x)}], s[Max(x)])
      BY <3>1 DEF IsFold
    <3>3. g[x \ {Max(x)}] = f[x \ {Max(x)}]
      BY <2>1
    <3> QED
      BY <2>1, <3>2, <3>3
  <2>2. CASE k + 1 \in x
    <3> HIDE DEF g
    <3>1. Max(x) = k + 1
      <4>1. k + 1 \in Nat /\ x \subseteq 1..k + 1
        OBVIOUS
      <4> QED
        BY <2>2, <4>1, MaxOfLast
    <3>2. g[x \ {k + 1}] = f[x \ {k + 1}]
      BY DEF g
    <3>3. g[x] = Folded(fold, f[x \ {k + 1}], s[k + 1])
      BY <2>2 DEF g
    <3> QED
      BY <2>2, <3>1, <3>2, <3>3
  <2> QED
    BY <2>1, <2>2
<1>2. g = [x \in SUBSET (1..k + 1) |-> g[x]]
  OBVIOUS
<1> HIDE DEF g
<1>3. g = [x \in SUBSET (1..k + 1) |-> body(x)]
  BY <1>1, <1>2
<1> QED
  BY <1>3 DEF IsFold

LEMMA IsFoldExists ==
    ASSUME NEW fold, NEW v, NEW s
    PROVE  \A n \in Nat : \E f : IsFold(fold, f, 1..n, v, s)
<1> DEFINE S == {n \in Nat : \E f : IsFold(fold, f, 1..n, v, s)}
<1>1. 0 \in S
  <2> DEFINE f == [x \in {{}} |-> v]
  <2>1. SUBSET (1..0) = {{}}
    OBVIOUS
  <2>2. IsFold(fold, f, 1..0, v, s)
    BY <2>1 DEF IsFold
  <2> QED
    BY <2>2
<1>2. \A n \in Nat : n \in S => n + 1 \in S
  BY IsFoldExtends
<1> HIDE DEF S
<1>3. Nat \subseteq S
  BY <1>1, <1>2, NatSetInduction
<1> QED
  BY <1>3 DEF S

\* The fold, step by step.
Stepwise(fold, f, n, v, s) ==
    /\ f[1..0] = v
    /\ \A k \in Nat : k < n => f[1..k + 1] = Folded(fold, f[1..k], s[k + 1])

LEMMA FoldSteps ==
    ASSUME NEW fold, NEW v, NEW s, NEW n \in Nat,
           NEW f, IsFold(fold, f, 1..n, v, s)
    PROVE  Stepwise(fold, f, n, v, s)
<1>1. f[1..0] = v
  <2>1. 1..0 = {} /\ {} \in SUBSET (1..n)
    OBVIOUS
  <2> QED
    BY <2>1 DEF IsFold
<1>2. ASSUME NEW k \in Nat, k < n
      PROVE  f[1..k + 1] = Folded(fold, f[1..k], s[k + 1])
  <2>1. Max(1..k + 1) = k + 1
    BY MaxOfLast
  <2>2. (1..k + 1) \ {k + 1} = 1..k /\ 1..k + 1 \in SUBSET (1..n) /\ 1..k + 1 # {}
    BY <1>2
  <2> QED
    BY <2>1, <2>2 DEF IsFold
<1> QED
  BY <1>1, <1>2 DEF Stepwise

\* Merged artifacts have identities of their own.
LEMMA MergedDistinct ==
    ASSUME NEW q, IsSequence(q), \A i \in DOMAIN q : IsArtifact(q[i])
    PROVE  Distinct(MergeArtifacts(q)) /\ (q = << >> => MergeArtifacts(q) = << >>)
<1> DEFINE f == CHOOSE f : IsFold("artifacts", f, DOMAIN q, << >>, q)
<1>1. PICK n \in Nat : n = Len(q) /\ DOMAIN q = 1..n
  BY SequenceDomain
<1>2. MergeArtifacts(q) = f[DOMAIN q]
  BY DEF MergeArtifacts, FoldLeft, MapThenFoldSet, IsFold, Folded
<1>3. IsFold("artifacts", f, 1..n, << >>, q)
  BY <1>1, IsFoldExists
<1> HIDE DEF f
<1>4. /\ f[1..0] = << >>
      /\ \A k \in Nat : k < n => f[1..k + 1] = UpsertArtifact(f[1..k], q[k + 1])
  <2>1. \A x, y : Folded("artifacts", x, y) = UpsertArtifact(x, y)
    BY DEF Folded
  <2>2. PICK v : v = << >>
    OBVIOUS
  <2>3. IsFold("artifacts", f, 1..n, v, q)
    BY <1>3, <2>2
  <2>4. Stepwise("artifacts", f, n, v, q)
    BY ONLY n \in Nat, <2>3, FoldSteps
  <2> QED
    BY <2>1, <2>2, <2>4 DEF Stepwise
<1> DEFINE S == {k \in Nat : k <= n => Distinct(f[1..k])}
<1>5. 0 \in S
  <2>1. Distinct(<< >>)
    BY DEF Distinct, IsSequence
  <2> QED
    BY <1>4, <2>1
<1>6. ASSUME NEW k \in Nat, k \in S
      PROVE  k + 1 \in S
  <2> SUFFICES ASSUME k + 1 <= n
               PROVE  Distinct(f[1..k + 1])
    OBVIOUS
  <2>1. Distinct(f[1..k]) /\ k < n /\ k + 1 \in 1..n
    BY <1>6
  <2>2. IsArtifact(q[k + 1])
    BY <1>1, <2>1
  <2> HIDE DEF S
  <2>3. UpsertIs(f[1..k], q[k + 1], f[1..k + 1])
    BY <1>4, <2>1, <2>2, UpsertDistinct
  <2> QED
    BY <2>3 DEF UpsertIs
<1> HIDE DEF S
<1>7. n \in S
  BY <1>5, <1>6, NatSetInduction
<1>8. q = << >> => n = 0
  BY <1>1
<1> QED
  BY <1>1, <1>2, <1>4, <1>7, <1>8 DEF S

\* The messages of ms with their identities, whatever else has changed.
SameIDs(ms, ns) ==
    /\ IsSequence(ns) /\ DOMAIN ns = DOMAIN ms
    /\ \A i \in DOMAIN ms : "id" \in DOMAIN ns[i] /\ ns[i].id = ms[i].id

LEMMA OffloadKeepsIDs ==
    ASSUME NEW ms, NEW ns, SameIDs(ms, ns), NEW arg
    PROVE  SameIDs(ms, OffloadArgument(ns, arg))
<1> DEFINE s == CHOOSE s \in ArgumentTargets(ns, arg) : TRUE
           b == [ns[s] EXCEPT !.blobs = @ \cup {arg.call}]
           t == OffloadArgument(ns, arg)
<1>1. t = [ns EXCEPT ![s] = b]
  BY DEF OffloadArgument
<1> HIDE DEF t, s
<1>2. DOMAIN t = DOMAIN ns /\ \A i \in DOMAIN ns : t[i] = ns[i] \/ (i = s /\ t[i] = b)
  <2> HIDE DEF b
  <2> QED
    BY <1>1
<1>3. DOMAIN b = DOMAIN ns[s] /\ ("id" \in DOMAIN b => b.id = ns[s].id)
  OBVIOUS
<1> HIDE DEF b
<1>4. IsSequence(t)
  <2>1. IsSequence(ns) /\ Len(ns) \in Nat /\ DOMAIN ns = 1..Len(ns)
    BY SequenceDomain DEF SameIDs
  <2>2. t = [i \in 1..Len(ns) |-> t[i]]
    BY <1>1, <1>2, <2>1
  <2>3. \A i \in 1..Len(ns) : t[i] \in Range(t)
    BY <1>2, <2>1 DEF Range
  <2>4. t \in Seq(Range(t))
    BY <2>1, <2>2, <2>3, SeqDef
  <2> QED
    BY <2>4 DEF IsSequence
<1> QED
  BY <1>2, <1>3, <1>4 DEF SameIDs, t

LEMMA OffloadsKeepIDs ==
    ASSUME NEW ms, IsSequence(ms), \A i \in DOMAIN ms : "id" \in DOMAIN ms[i],
           NEW q, IsSequence(q)
    PROVE  SameIDs(ms, FoldLeft(OffloadArgument, ms, q))
<1> DEFINE f == CHOOSE f : IsFold("arguments", f, DOMAIN q, ms, q)
<1>1. PICK n \in Nat : n = Len(q) /\ DOMAIN q = 1..n
  BY SequenceDomain
<1>2. FoldLeft(OffloadArgument, ms, q) = f[DOMAIN q]
  BY DEF FoldLeft, MapThenFoldSet, IsFold, Folded
<1>3. IsFold("arguments", f, 1..n, ms, q)
  BY <1>1, IsFoldExists
<1> HIDE DEF f
<1>4. /\ f[1..0] = ms
      /\ \A k \in Nat : k < n => f[1..k + 1] = OffloadArgument(f[1..k], q[k + 1])
  <2>1. \A x, y : Folded("arguments", x, y) = OffloadArgument(x, y)
    BY DEF Folded
  <2>2. Stepwise("arguments", f, n, ms, q)
    BY ONLY n \in Nat, <1>3, FoldSteps
  <2> QED
    BY <2>1, <2>2 DEF Stepwise
<1> DEFINE S == {k \in Nat : k <= n => SameIDs(ms, f[1..k])}
<1>5. 0 \in S
  BY <1>4 DEF SameIDs
<1>6. ASSUME NEW k \in Nat, k \in S
      PROVE  k + 1 \in S
  <2> SUFFICES ASSUME k + 1 <= n
               PROVE  SameIDs(ms, f[1..k + 1])
    OBVIOUS
  <2>1. SameIDs(ms, f[1..k]) /\ k < n
    BY <1>6
  <2> HIDE DEF S
  <2> QED
    BY <1>4, <2>1, OffloadKeepsIDs
<1> HIDE DEF S
<1>7. n \in S
  BY <1>5, <1>6, NatSetInduction
<1> QED
  BY <1>1, <1>2, <1>7 DEF S

-----------------------------------------------------------------------------
(* Messages of artifacts *)

\* What is cached for an artifact is a message of that artifact.
CacheOK(c) == \A a \in DOMAIN c : c[a] = MaterializedMessage(a, c[a].rev)

\* d knows what c knows.
Knows(d, c) == \A a \in DOMAIN c : a \in DOMAIN d /\ d[a] = c[a]

LEMMA Remembered ==
    ASSUME NEW c, CacheOK(c), NEW a, NEW rep, NEW m, m = MaterializedMessage(a, rep),
           a \in DOMAIN c => c[a] = m
    PROVE  LET d == Remember(c, a, m) IN CacheOK(d) /\ Knows(d, c) /\ a \in DOMAIN d /\ d[a] = m
<1>1. m = MaterializedMessage(a, m.rev)
  BY DEF MaterializedMessage
<1> QED
  BY <1>1 DEF Remember, CacheOK, Knows

LEMMA Materialized ==
    ASSUME NEW c, CacheOK(c), NEW a, NEW m \in MessagesOf(a), Materialize(c, a, m)
    PROVE  CacheOK(cache') /\ Knows(cache', c) /\ a \in DOMAIN cache' /\ cache'[a] = m
<1>1. PICK rep : m = MaterializedMessage(a, rep)
  BY DEF MessagesOf
<1>2. CASE a \in DOMAIN c
  BY <1>2 DEF Materialize, Knows
<1>3. CASE a \notin DOMAIN c
  <2>1. cache' = Remember(c, a, m)
    BY <1>3 DEF Materialize
  <2> QED
    BY <1>1, <1>3, <2>1, Remembered
<1> QED
  BY <1>2, <1>3

LEMMA CachedMessage ==
    ASSUME NEW c, CacheOK(c), NEW a \in DOMAIN c
    PROVE  /\ c[a].id = a.id /\ "id" \in DOMAIN c[a]
           /\ c[a].origin.template = None /\ c[a].origin.layer = None
           /\ [c[a] EXCEPT !.id = a.id] = c[a]
<1> DEFINE rep == c[a].rev
<1>1. c[a] = MaterializedMessage(a, rep)
  BY DEF CacheOK
<1> HIDE DEF rep
<1> QED
  BY <1>1 DEF MaterializedMessage

\* No message of ms is an artifact's; an artifact has one message at most.
NoArtifacts(ms) == IDs(ms) \cap ArtifactIdentities = {}
OneEach(ms) == \A i, j \in DOMAIN ms : ms[i].id = ms[j].id /\ ms[i].id \in ArtifactIdentities => i = j

HasSegments(s) == s = [g \in Segments |-> s[g]] /\ \A g \in Segments : IsSequence(s[g])

Lone(s) ==
    /\ \A g \in Segments : OneEach(s[g])
    /\ \A g, h \in Segments : g # h => IDs(s[g]) \cap IDs(s[h]) \cap ArtifactIdentities = {}

\* Of the artifacts' messages, s has those of A but for the identities R, and no
\* others but for R.
ShowsOnly(s, A, c, R) ==
    \A g \in Segments : \A m \in Elements(s[g]) :
        m.id \in ArtifactIdentities \ R => \E a \in A : m = c[a]
IsIn(s, m) == \E g \in Segments : m \in Elements(s[g])

Shows(s, A, c) == HasSegments(s) /\ Lone(s) /\ ShowsOnly(s, A, c, {}) /\ \A a \in A : IsIn(s, c[a])

\* A block in progress: ms are its messages, R the identities of what was replaced.
InProgress(s, ms, A, c, R) ==
    /\ HasSegments(s) /\ Lone(s) /\ ShowsOnly(s, A, c, R)
    /\ IsSequence(ms) /\ \A i \in DOMAIN ms : "id" \in DOMAIN ms[i]
    /\ \A i \in DOMAIN ms : ms[i].id \in ArtifactIdentities \ R =>
         /\ \E a \in A : ms[i] = c[a]
         /\ \A j \in DOMAIN ms : ms[j].id = ms[i].id => j = i
         /\ \A g \in Segments : ms[i].id \notin IDs(s[g])
    /\ \A a \in A :
         IF a.id \in R THEN \E i \in DOMAIN ms : ms[i] = c[a] /\ \A j \in i+1..Len(ms) : ms[j].id # a.id
         ELSE IsIn(s, c[a]) \/ c[a] \in Elements(ms)

\* A set of artifacts that have identities of their own and are in the cache.
Active(A, c) ==
    /\ \A a \in A : IsArtifact(a) /\ a \in DOMAIN c
    /\ \A a, b \in A : a.id = b.id => a = b

\* The artifact x, whose message is m, comes into A; what it replaces is in R.
Admits(A, R, x, B, Q) ==
    /\ x \in B /\ R \subseteq Q
    /\ \A b \in B : b = x \/ (b \in A /\ b.id # x.id)
    /\ \A a \in A : (a \notin B \/ a.id = x.id) => a.id \in Q
    /\ \A id \in Q \ R : id = x.id \/ \E a \in A : a.id = id /\ a \notin B

-----------------------------------------------------------------------------
(* Resources and the end of a block *)

\* A resource without effect, or an artifact learnt of, changes nothing.
LEMMA KnowingMore ==
    ASSUME NEW s, NEW ms, NEW A, NEW c, NEW R, InProgress(s, ms, A, c, R), Active(A, c),
           NEW d, Knows(d, c)
    PROVE  InProgress(s, ms, A, d, R) /\ Active(A, d)
<1>1. \A a \in A : a \in DOMAIN c /\ d[a] = c[a] /\ a \in DOMAIN d
  BY DEF Active, Knows
<1>2. Active(A, d)
  BY <1>1 DEF Active
<1>3. ShowsOnly(s, A, d, R)
  BY <1>1 DEF InProgress, ShowsOnly
<1>4. InProgress(s, ms, A, d, R)
  BY <1>1, <1>3 DEF InProgress
<1> QED
  BY <1>2, <1>4

LEMMA AdmittedInProgress ==
    ASSUME NEW s, NEW ms, NEW A, NEW c, NEW R, InProgress(s, ms, A, c, R), Active(A, c), CacheOK(c),
           NEW x, NEW B, NEW Q, Admits(A, R, x, B, Q), Active(B, c),
           NEW t, WithOne(ms, c[x], t)
    PROVE  InProgress(s, t, B, c, Q)
<1>1. PICK n \in Nat : n = Len(ms) /\ DOMAIN ms = 1..n
  BY SequenceDomain DEF InProgress
<1>2. IsSequence(t) /\ DOMAIN t = 1..n + 1 /\ t[n + 1] = c[x] /\ Len(t) = n + 1
  BY <1>1, SequenceDomain DEF WithOne
<1>3. 1..n \subseteq 1..n + 1 /\ \A j \in 1..n + 1 : j \in 1..n \/ j = n + 1
  OBVIOUS
<1>4. \A i \in DOMAIN ms : i \in DOMAIN t /\ t[i] = ms[i]
  BY <1>1, <1>2, <1>3 DEF WithOne
<1>5. \A i \in DOMAIN t : i \in DOMAIN ms \/ i = n + 1
  BY <1>1, <1>2, <1>3
<1>6. x \in DOMAIN c /\ IsArtifact(x) /\ x \in B /\ c[x].id = x.id /\ "id" \in DOMAIN c[x]
      /\ \A a \in A \cup B : a \in DOMAIN c /\ c[a].id = a.id /\ a.id \in ArtifactIdentities
  BY CachedMessage DEF Admits, Active, IsArtifact
<1>7. n + 1 \in DOMAIN t
  BY <1>2
<1>8. \A a \in A : a.id \notin Q => a \in B /\ a.id # x.id /\ a.id \notin R
  BY DEF Admits
<1>9. ShowsOnly(s, B, c, Q)
  <2> SUFFICES ASSUME NEW g \in Segments, NEW m \in Elements(s[g]), m.id \in ArtifactIdentities \ Q
               PROVE  \E b \in B : m = c[b]
    BY DEF ShowsOnly
  <2>1. m.id \in ArtifactIdentities \ R
    BY DEF Admits
  <2>2. PICK a \in A : m = c[a]
    BY <2>1 DEF InProgress, ShowsOnly
  <2>3. a.id \notin Q
    BY <1>6, <2>2
  <2> QED
    BY <1>8, <2>2, <2>3
<1>10. \A i \in DOMAIN t : "id" \in DOMAIN t[i]
  BY <1>2, <1>4, <1>5, <1>6 DEF InProgress
<1>11. ASSUME NEW i \in DOMAIN t, t[i].id \in ArtifactIdentities \ Q
       PROVE  /\ \E b \in B : t[i] = c[b]
              /\ \A j \in DOMAIN t : t[j].id = t[i].id => j = i
              /\ \A g \in Segments : t[i].id \notin IDs(s[g])
  <2>1. CASE i \in DOMAIN ms
    <3>1. t[i] = ms[i] /\ ms[i].id \in ArtifactIdentities \ R
      BY <1>4, <1>11, <2>1 DEF Admits
    <3>2. PICK a \in A : ms[i] = c[a]
      BY <2>1, <3>1 DEF InProgress
    <3>3. a \in B /\ a.id # x.id
      BY <1>6, <1>8, <1>11, <3>1, <3>2
    <3>4. t[n + 1].id # t[i].id
      BY <1>2, <1>6, <3>1, <3>2, <3>3
    <3>5. /\ \A j \in DOMAIN ms : ms[j].id = ms[i].id => j = i
          /\ \A g \in Segments : ms[i].id \notin IDs(s[g])
      BY <2>1, <3>1 DEF InProgress
    <3>6. \A j \in DOMAIN t : t[j].id = t[i].id => j = i
      BY <1>4, <1>5, <3>1, <3>4, <3>5
    <3> QED
      BY <3>1, <3>2, <3>3, <3>5, <3>6
  <2>2. CASE i = n + 1
    <3>1. t[i] = c[x] /\ t[i].id = x.id /\ x.id \notin Q /\ x.id \in ArtifactIdentities \ R
      BY <1>2, <1>6, <1>11, <2>2 DEF Admits
    <3>2. \A a \in A : a.id # x.id
      BY <3>1 DEF Admits
    <3>3. \A j \in DOMAIN ms : ms[j].id # x.id
      BY <1>6, <3>1, <3>2 DEF InProgress
    <3>4. \A j \in DOMAIN t : t[j].id = t[i].id => j = i
      BY <1>4, <1>5, <2>2, <3>1, <3>3
    <3>5. ASSUME NEW g \in Segments, t[i].id \in IDs(s[g])
          PROVE  FALSE
      <4>1. PICK k \in DOMAIN s[g] : s[g][k].id = x.id
        BY <3>1, <3>5 DEF IDs
      <4>2. s[g][k] \in Elements(s[g])
        BY DEF Elements
      <4>3. PICK a \in A : s[g][k] = c[a]
        BY <3>1, <4>1, <4>2 DEF InProgress, ShowsOnly
      <4> QED
        BY <1>6, <3>2, <4>1, <4>3
    <3> QED
      BY <1>6, <3>1, <3>4, <3>5
  <2> QED
    BY <1>5, <2>1, <2>2
<1>12. ASSUME NEW b \in B
       PROVE  IF b.id \in Q
              THEN \E i \in DOMAIN t : t[i] = c[b] /\ \A j \in i+1..Len(t) : t[j].id # b.id
              ELSE IsIn(s, c[b]) \/ c[b] \in Elements(t)
  <2>1. CASE b = x
    <3>1. c[b] \in Elements(t)
      BY <1>2, <1>7, <2>1 DEF Elements
    <3>2. (n + 1) + 1..Len(t) = {}
      BY <1>2
    <3>3. \A j \in (n + 1) + 1..Len(t) : t[j].id # b.id
      BY <3>2
    <3> QED
      BY <1>2, <1>7, <2>1, <3>1, <3>3
  <2>2. CASE b # x
    <3>1. b \in A /\ b.id # x.id /\ t[n + 1].id # b.id
      BY <1>2, <1>6, <2>2 DEF Admits
    <3>2. CASE b.id \in Q
      <4>1. b.id \in R
        <5> SUFFICES ASSUME b.id \notin R PROVE FALSE
          OBVIOUS
        <5>1. PICK a \in A : a.id = b.id /\ a \notin B
          BY <3>1, <3>2 DEF Admits
        <5> QED
          BY <3>1, <5>1 DEF Active
      <4>2. PICK i \in DOMAIN ms : ms[i] = c[b] /\ \A j \in i+1..Len(ms) : ms[j].id # b.id
        BY <3>1, <4>1 DEF InProgress
      <4>3. ASSUME NEW j \in i+1..Len(t)
            PROVE  t[j].id # b.id
        <5>1. i \in Nat /\ j \in i+1..n + 1
          BY <1>1, <1>2
        <5>2. j = n + 1 \/ (j \in i+1..n /\ j \in 1..n)
          BY <1>1, <5>1
        <5> QED
          BY <1>1, <1>4, <3>1, <4>2, <5>2
      <4> QED
        BY <1>4, <3>2, <4>2, <4>3
    <3>3. CASE b.id \notin Q
      <4>1. b.id \notin R
        BY <3>3 DEF Admits
      <4>2. IsIn(s, c[b]) \/ c[b] \in Elements(ms)
        BY <3>1, <4>1 DEF InProgress
      <4>3. c[b] \in Elements(ms) => c[b] \in Elements(t)
        BY <1>4 DEF Elements
      <4> QED
        BY <3>3, <4>2, <4>3
    <3> QED
      BY <3>2, <3>3
  <2> QED
    BY <2>1, <2>2
<1> QED
  BY <1>2, <1>9, <1>10, <1>11, <1>12 DEF InProgress

-----------------------------------------------------------------------------
(* What is left of a block *)

\* RemoveReplacedContent, by the artifacts A and the identities R.
StaysInBlock(ms, A, R) ==
    {k \in DOMAIN ms : ms[k].id \in R => /\ \E a \in A : ms[k].id = a.id
                                         /\ \A l \in k+1..Len(ms) : ms[l].id # ms[k].id}

\* ns has the messages of ms at the positions S, each once.
TakenOnce(ms, S, ns) ==
    /\ IsSequence(ns)
    /\ \A i \in DOMAIN ns : \E k \in S : ns[i] = ms[k]
    /\ \A i, j \in DOMAIN ns : \E k, l \in S : ns[i] = ms[k] /\ ns[j] = ms[l] /\ (k = l => i = j)
    /\ \A k \in S : ms[k] \in Elements(ns)

LEMMA PositionsTaken ==
    ASSUME NEW ms, IsSequence(ms), NEW S, S \subseteq DOMAIN ms,
           NEW at, at = Kept([k \in DOMAIN ms |-> k], S),
           NEW ns, ns = [k \in DOMAIN at |-> ms[at[k]]]
    PROVE  TakenOnce(ms, S, ns)
<1>1. PICK n \in Nat : n = Len(ms) /\ DOMAIN ms = 1..n
  BY SequenceDomain
<1>2. PICK ps : ps = [k \in DOMAIN ms |-> k]
  OBVIOUS
<1>3. IsSequence(ps) /\ DOMAIN ps = DOMAIN ms /\ \A k \in DOMAIN ms : ps[k] = k
  <2>1. ps \in [1..n -> Nat] /\ DOMAIN ps = DOMAIN ms /\ \A k \in DOMAIN ms : ps[k] = k
    BY <1>1, <1>2
  <2>2. ps \in Seq(Nat)
    BY <2>1, SeqDef
  <2> QED
    BY <2>1, <2>2, SequenceOf
<1>4. at = Kept(ps, S)
  BY <1>2
<1>5. IsSequence(at) /\ Elements(at) = Elements(ps) \cap S
  <2>1. IsSequence(ps)
    BY <1>3
  <2> QED
    BY ONLY <1>4, <2>1, KeptElements
<1>6. Elements(at) = S
  BY <1>3, <1>5 DEF Elements
<1>7. PICK m \in Nat : m = Len(at) /\ DOMAIN at = 1..m
  BY <1>5, SequenceDomain
<1>8. \A i \in DOMAIN at : at[i] \in S
  BY <1>6 DEF Elements
<1>9. DOMAIN ns = 1..m /\ \A i \in 1..m : ns[i] = ms[at[i]]
  BY <1>7
<1>10. IsSequence(ns)
  <2>1. ns = [i \in 1..m |-> ns[i]] /\ \A i \in 1..m : ns[i] \in Range(ns)
    BY <1>7, <1>9 DEF Range
  <2> DEFINE R == Range(ns)
  <2>2. ns \in [1..m -> R]
    BY <2>1
  <2> HIDE DEF R
  <2>3. ns \in Seq(R)
    BY ONLY <1>7, <2>2, SeqDef
  <2> QED
    BY <2>3 DEF IsSequence, R
<1>11. ASSUME NEW i \in DOMAIN ns, NEW j \in DOMAIN ns
       PROVE  \E k, l \in S : ns[i] = ms[k] /\ ns[j] = ms[l] /\ (k = l => i = j)
  <2>1. i \in DOMAIN at /\ j \in DOMAIN at
    BY <1>7, <1>9
  <2>2. OnceIn(ps, at, i, j)
    BY <1>3, <1>4, <2>1, KeptOnce
  <2>3. at[i] = at[j] => i = j
    BY <1>3, <2>2 DEF OnceIn
  <2>4. at[i] \in S /\ at[j] \in S /\ ns[i] = ms[at[i]] /\ ns[j] = ms[at[j]]
    BY <1>7, <1>8, <1>9, <2>1
  <2> QED
    BY <2>3, <2>4
<1>12. ASSUME NEW k \in S
       PROVE  ms[k] \in Elements(ns)
  <2>1. PICK i \in DOMAIN at : at[i] = k
    BY <1>6 DEF Elements
  <2>2. i \in DOMAIN ns /\ ns[i] = ms[k]
    BY <1>7, <1>9, <2>1
  <2> QED
    BY <2>2 DEF Elements
<1>13. \A i \in DOMAIN ns : \E k \in S : ns[i] = ms[k]
  BY <1>7, <1>8, <1>9
<1> QED
  BY <1>10, <1>11, <1>12, <1>13 DEF TakenOnce

\* What is left of the messages of a block.
Cleaned(s, ns, A, c, R) ==
    /\ IsSequence(ns) /\ OneEach(ns)
    /\ \A i \in DOMAIN ns : "id" \in DOMAIN ns[i]
    /\ \A i \in DOMAIN ns : ns[i].id \in ArtifactIdentities => \E a \in A : ns[i] = c[a]
    /\ \A i \in DOMAIN ns : ns[i].id \in ArtifactIdentities \ R => \A g \in Segments : ns[i].id \notin IDs(s[g])
    /\ \A a \in A : c[a] \in Elements(ns) \/ (a.id \notin R /\ IsIn(s, c[a]))

LEMMA BlockCleaned ==
    ASSUME NEW s, NEW ms, NEW A, NEW c, NEW R, InProgress(s, ms, A, c, R), Active(A, c), CacheOK(c),
           NEW ns, TakenOnce(ms, StaysInBlock(ms, A, R), ns)
    PROVE  Cleaned(s, ns, A, c, R)
<1> DEFINE S == StaysInBlock(ms, A, R)
<1>1. PICK n \in Nat : n = Len(ms) /\ DOMAIN ms = 1..n
  BY SequenceDomain DEF InProgress
<1>2. \A a \in A : a \in DOMAIN c /\ c[a].id = a.id /\ a.id \in ArtifactIdentities
  BY CachedMessage DEF Active, IsArtifact
<1>3. S \subseteq DOMAIN ms
  BY DEF StaysInBlock
\* The message of a replaced artifact that stays is the last one of its identity.
<1>4. ASSUME NEW k \in S, ms[k].id \in R, NEW a \in A, ms[k].id = a.id
      PROVE  ms[k] = c[a]
  <2>1. PICK i \in DOMAIN ms : ms[i] = c[a] /\ \A j \in i+1..Len(ms) : ms[j].id # a.id
    BY <1>4 DEF InProgress
  <2>2. \A l \in k+1..Len(ms) : ms[l].id # a.id
    BY <1>4 DEF StaysInBlock
  <2>3. k \in 1..n /\ i \in 1..n
    BY <1>1, <1>3
  <2>4. ~(i \in k+1..n) /\ ~(k \in i+1..n)
    BY <1>1, <1>2, <1>4, <2>1, <2>2
  <2>5. i = k
    BY <2>3, <2>4
  <2> QED
    BY <2>1, <2>5
<1>5. ASSUME NEW k \in S, ms[k].id \in ArtifactIdentities
      PROVE  \E a \in A : ms[k] = c[a]
  <2>1. CASE ms[k].id \in R
    <3>1. PICK a \in A : ms[k].id = a.id
      BY <2>1 DEF StaysInBlock
    <3> QED
      BY <1>4, <2>1, <3>1
  <2>2. CASE ms[k].id \notin R
    BY <1>3, <1>5, <2>2 DEF InProgress
  <2> QED
    BY <2>1, <2>2
<1>6. ASSUME NEW k \in S, NEW l \in S, ms[k].id = ms[l].id, ms[k].id \in ArtifactIdentities
      PROVE  k = l
  <2>1. CASE ms[k].id \in R
    <3>1. k \in 1..n /\ l \in 1..n
      BY <1>1, <1>3
    <3>2. ~(l \in k+1..n) /\ ~(k \in l+1..n)
      BY <1>1, <1>6, <2>1 DEF StaysInBlock
    <3> QED
      BY <3>1, <3>2
  <2>2. CASE ms[k].id \notin R
    BY <1>3, <1>6, <2>2 DEF InProgress
  <2> QED
    BY <2>1, <2>2
<1>7. ASSUME NEW a \in A, c[a] \notin Elements(ns)
      PROVE  a.id \notin R /\ IsIn(s, c[a])
  <2>1. \A k \in S : ms[k] # c[a]
    BY <1>7 DEF TakenOnce
  <2>2. a.id \notin R
    <3> SUFFICES ASSUME a.id \in R PROVE FALSE
      OBVIOUS
    <3>1. PICK i \in DOMAIN ms : ms[i] = c[a] /\ \A j \in i+1..Len(ms) : ms[j].id # a.id
      BY DEF InProgress
    <3>2. i \in S
      BY <1>2, <3>1 DEF StaysInBlock
    <3> QED
      BY <2>1, <3>1, <3>2
  <2>3. c[a] \notin Elements(ms)
    <3> SUFFICES ASSUME NEW i \in DOMAIN ms, ms[i] = c[a] PROVE FALSE
      BY DEF Elements
    <3>1. i \in S
      BY <1>2, <2>2 DEF StaysInBlock
    <3> QED
      BY <2>1, <3>1
  <2> QED
    BY <2>2, <2>3 DEF InProgress
<1> HIDE DEF S
<1>8. IsSequence(ns) /\ \A i \in DOMAIN ns : \E k \in S : ns[i] = ms[k]
  BY DEF TakenOnce, S
<1>9. \A i \in DOMAIN ns : "id" \in DOMAIN ns[i]
  BY <1>3, <1>8 DEF InProgress
<1>10. OneEach(ns)
  <2> SUFFICES ASSUME NEW i \in DOMAIN ns, NEW j \in DOMAIN ns, ns[i].id = ns[j].id,
                      ns[i].id \in ArtifactIdentities
               PROVE  i = j
    BY DEF OneEach
  <2>1. PICK k \in S, l \in S : ns[i] = ms[k] /\ ns[j] = ms[l] /\ (k = l => i = j)
    BY DEF TakenOnce, S
  <2> QED
    BY <1>6, <2>1
<1>11. \A i \in DOMAIN ns : ns[i].id \in ArtifactIdentities => \E a \in A : ns[i] = c[a]
  BY <1>5, <1>8
<1>12. \A i \in DOMAIN ns : ns[i].id \in ArtifactIdentities \ R => \A g \in Segments : ns[i].id \notin IDs(s[g])
  BY <1>3, <1>8 DEF InProgress
<1> QED
  BY <1>7, <1>8, <1>9, <1>10, <1>11, <1>12 DEF Cleaned

-----------------------------------------------------------------------------
(* The end of a block *)

LEMMA FunctionIsSequence ==
    ASSUME NEW n \in Nat, NEW f, f = [k \in 1..n |-> f[k]]
    PROVE  IsSequence(f)
<1> DEFINE R == Range(f)
<1>1. \A k \in 1..n : f[k] \in R
  BY DEF Range
<1>2. f \in [1..n -> R]
  BY <1>1
<1> HIDE DEF R
<1>3. f \in Seq(R)
  BY ONLY <1>2, n \in Nat, SeqDef
<1> QED
  BY <1>3 DEF IsSequence, R

InJoined(u, v, w, i) ==
    \/ i \in DOMAIN u /\ w[i] = u[i]
    \/ \E j \in DOMAIN v : i = Len(u) + j /\ w[i] = v[j]

LEMMA Joined ==
    ASSUME NEW u, IsSequence(u), NEW v, IsSequence(v), NEW w, w = u \o v
    PROVE  /\ IsSequence(w)
           /\ \A i \in DOMAIN w : InJoined(u, v, w, i)
           /\ \A i \in DOMAIN u : i \in DOMAIN w /\ w[i] = u[i]
           /\ \A j \in DOMAIN v : Len(u) + j \in DOMAIN w /\ w[Len(u) + j] = v[j]
           /\ Elements(w) = Elements(u) \cup Elements(v)
<1> DEFINE T == Range(u) \cup Range(v)
<1>1. PICK n \in Nat : n = Len(u) /\ DOMAIN u = 1..n
  BY SequenceDomain
<1>2. PICK m \in Nat : m = Len(v) /\ DOMAIN v = 1..m
  BY SequenceDomain
<1>3. u \in Seq(T) /\ v \in Seq(T)
  BY SeqMonotonic DEF IsSequence
<1> HIDE DEF T
<1>4. /\ w \in Seq(T) /\ Len(w) = n + m
      /\ \A i \in 1..n + m : w[i] = IF i <= n THEN u[i] ELSE v[i - n]
  BY ONLY <1>1, <1>2, <1>3, w = u \o v, ConcatProperties
<1>5. IsSequence(w) /\ DOMAIN w = 1..n + m
  BY <1>4, SequenceOf, SequenceDomain
<1>6. \A i \in 1..n : i \in 1..n + m /\ i <= n
  OBVIOUS
<1>7. \A j \in 1..m : n + j \in 1..n + m /\ ~(n + j <= n) /\ (n + j) - n = j
  OBVIOUS
<1>8. \A i \in 1..n + m : i \in 1..n \/ (i - n \in 1..m /\ i = n + (i - n) /\ ~(i <= n))
  OBVIOUS
<1>9. \A i \in DOMAIN u : i \in DOMAIN w /\ w[i] = u[i]
  BY <1>1, <1>4, <1>5, <1>6
<1>10. \A j \in DOMAIN v : n + j \in DOMAIN w /\ w[n + j] = v[j]
  BY <1>2, <1>4, <1>5, <1>7
<1>11. ASSUME NEW i \in DOMAIN w
       PROVE  InJoined(u, v, w, i)
  <2>1. CASE i \in 1..n
    BY <1>1, <1>9, <2>1 DEF InJoined
  <2>2. CASE i \notin 1..n
    <3>1. i - n \in DOMAIN v /\ i = Len(u) + (i - n) /\ w[i] = v[i - n]
      BY <1>1, <1>2, <1>4, <1>5, <1>8, <2>2
    <3> QED
      BY <3>1 DEF InJoined
  <2> QED
    BY <2>1, <2>2
<1>12. Elements(w) = Elements(u) \cup Elements(v)
  <2>1. \A x \in Elements(w) : x \in Elements(u) \cup Elements(v)
    BY <1>11 DEF Elements, InJoined
  <2>2. \A x \in Elements(u) \cup Elements(v) : x \in Elements(w)
    BY <1>9, <1>10 DEF Elements
  <2> QED
    BY <2>1, <2>2
<1> QED
  BY <1>1, <1>5, <1>9, <1>10, <1>11, <1>12

\* Merging a block into a segment keeps every message without a template and a layer.
KeepsPlain(old, u) ==
    \A m \in Elements(old) : m.origin.template = None /\ m.origin.layer = None => m \in Elements(u)

Merges(old, es, w) == \E S : w = Kept(old, S) \o es /\ KeepsPlain(old, Kept(old, S))

LEMMA PolicyMerges ==
    ASSUME NEW old, IsSequence(old), NEW es, NEW merge \in {"append", "replace", "dedup"},
           NEW w, w = ApplyMergePolicy(old, es, merge)
    PROVE  Merges(old, es, w)
<1> DEFINE S == {m \in Elements(old) :
                   CASE merge = "append" -> TRUE
                     [] merge = "replace" -> m.origin.template \notin Templates(es)
                     [] merge = "dedup" -> m.origin \notin Layers(es)}
<1>1. w = Kept(old, S) \o es
  BY DEF ApplyMergePolicy
<1>2. ASSUME NEW m \in Elements(old), m.origin.template = None, m.origin.layer = None
      PROVE  m \in S
  <2>1. None \notin Templates(es)
    BY DEF Templates
  <2>2. m.origin \notin Layers(es)
    BY <1>2 DEF Layers
  <2> QED
    BY <1>2, <2>1, <2>2
<1> HIDE DEF S
<1>3. \A m \in Elements(old) : m \in S => m \in Elements(Kept(old, S))
  BY KeptElements
<1> QED
  BY <1>1, <1>2, <1>3 DEF KeepsPlain, Merges

\* es are the messages of ns with identities for those that had none.
NamedAs(ns, es) ==
    /\ IsSequence(es) /\ DOMAIN es = DOMAIN ns
    /\ \A i \in DOMAIN ns : IF ns[i].id \in ArtifactIdentities THEN es[i] = ns[i]
                            ELSE es[i].id \notin ArtifactIdentities

\* The snapshot s without the identities R.
LeftOf(s, R) == [g \in Segments |-> Kept(s[g], {m \in Elements(s[g]) : m.id \notin R})]

LEMMA Left ==
    ASSUME NEW s, HasSegments(s), Lone(s), NEW R, NEW left, left = LeftOf(s, R)
    PROVE  /\ HasSegments(left) /\ Lone(left)
           /\ \A g \in Segments : Elements(left[g]) = {m \in Elements(s[g]) : m.id \notin R}
<1>1. ASSUME NEW g \in Segments
      PROVE  /\ IsSequence(left[g]) /\ OneEach(left[g])
             /\ Elements(left[g]) = {m \in Elements(s[g]) : m.id \notin R}
  <2> DEFINE S == {m \in Elements(s[g]) : m.id \notin R}
  <2>1. IsSequence(s[g]) /\ left[g] = Kept(s[g], S) /\ OneEach(s[g])
    BY DEF HasSegments, LeftOf, Lone
  <2>2. S \subseteq Elements(s[g])
    OBVIOUS
  <2> HIDE DEF S
  <2>3. IsSequence(left[g]) /\ Elements(left[g]) = S
    <3>1. IsSequence(s[g]) /\ left[g] = Kept(s[g], S)
      BY <2>1
    <3>2. IsSequence(left[g]) /\ Elements(left[g]) = Elements(s[g]) \cap S
      BY ONLY <3>1, KeptElements
    <3> QED
      BY <2>2, <3>2
  <2>4. ASSUME NEW i \in DOMAIN left[g], NEW j \in DOMAIN left[g], left[g][i].id = left[g][j].id,
               left[g][i].id \in ArtifactIdentities
        PROVE  i = j
    <3>1. OnceIn(s[g], left[g], i, j)
      BY <2>1, KeptOnce
    <3>2. PICK k \in DOMAIN s[g], l \in DOMAIN s[g] :
            s[g][k] = left[g][i] /\ s[g][l] = left[g][j] /\ (k = l => i = j)
      BY <3>1 DEF OnceIn
    <3> QED
      BY <2>1, <2>4, <3>2 DEF OneEach
  <2> QED
    BY <2>3, <2>4 DEF OneEach, S
<1>2. HasSegments(left)
  BY <1>1 DEF HasSegments, LeftOf
<1>3. \A g \in Segments : IDs(left[g]) \subseteq IDs(s[g])
  BY <1>1 DEF IDs, Elements
<1>4. Lone(left)
  BY <1>1, <1>3 DEF Lone
<1> QED
  BY <1>1, <1>2, <1>4

LEMMA BlockMerged ==
    ASSUME NEW s, NEW A, NEW c, NEW R, HasSegments(s), Lone(s), ShowsOnly(s, A, c, R),
           Active(A, c), CacheOK(c), NEW ns, Cleaned(s, ns, A, c, R),
           NEW es, NamedAs(ns, es), NEW left, left = LeftOf(s, R),
           NEW seg \in Segments, NEW merge \in {"append", "replace", "dedup"},
           NEW t, t = [left EXCEPT ![seg] = ApplyMergePolicy(left[seg], es, merge)]
    PROVE  Shows(t, A, c)
<1>1. /\ HasSegments(left) /\ Lone(left)
      /\ \A g \in Segments : Elements(left[g]) = {m \in Elements(s[g]) : m.id \notin R}
  BY Left
<1>2. t = [g \in Segments |-> t[g]] /\ t[seg] = ApplyMergePolicy(left[seg], es, merge)
      /\ \A g \in Segments \ {seg} : t[g] = left[g]
  BY <1>1 DEF HasSegments
<1>3. PICK S : t[seg] = Kept(left[seg], S) \o es /\ KeepsPlain(left[seg], Kept(left[seg], S))
  <2>1. IsSequence(left[seg])
    BY <1>1 DEF HasSegments
  <2>2. t[seg] = ApplyMergePolicy(left[seg], es, merge)
    BY <1>2
  <2>3. Merges(left[seg], es, t[seg])
    BY ONLY <2>1, <2>2, merge \in {"append", "replace", "dedup"}, PolicyMerges
  <2> QED
    BY <2>3 DEF Merges
<1>4. PICK u : u = Kept(left[seg], S)
  OBVIOUS
<1>5. IsSequence(u) /\ Elements(u) \subseteq Elements(left[seg])
  BY <1>1, <1>4, KeptElements DEF HasSegments
<1>6. IsSequence(es) /\ DOMAIN es = DOMAIN ns
  BY DEF NamedAs
<1>7. /\ IsSequence(t[seg]) /\ \A i \in DOMAIN t[seg] : InJoined(u, es, t[seg], i)
      /\ Elements(t[seg]) = Elements(u) \cup Elements(es)
  <2>1. t[seg] = u \o es
    BY <1>3, <1>4
  <2> QED
    BY ONLY <1>5, <1>6, <2>1, Joined
<1>8. \A i \in DOMAIN es : es[i].id \in ArtifactIdentities => es[i] = ns[i]
  BY DEF NamedAs
\* An identity of an artifact in the block is not one of what is left.
<1>9. ASSUME NEW i \in DOMAIN es, es[i].id \in ArtifactIdentities, NEW g \in Segments,
             NEW m \in Elements(left[g]), m.id = es[i].id
      PROVE  FALSE
  <2>1. m \in Elements(s[g]) /\ m.id \notin R
    BY <1>1
  <2>2. m.id \in IDs(s[g])
    BY <2>1 DEF IDs, Elements
  <2>3. ns[i].id = m.id /\ i \in DOMAIN ns
    BY <1>6, <1>8, <1>9
  <2> QED
    BY <1>9, <2>1, <2>2, <2>3 DEF Cleaned
<1>10. OneEach(t[seg])
  <2> SUFFICES ASSUME NEW i \in DOMAIN t[seg], NEW j \in DOMAIN t[seg], t[seg][i].id = t[seg][j].id,
                      t[seg][i].id \in ArtifactIdentities
               PROVE  i = j
    BY DEF OneEach
  <2>1. CASE i \in DOMAIN u /\ t[seg][i] = u[i] /\ j \in DOMAIN u /\ t[seg][j] = u[j]
    <3>1. OnceIn(left[seg], u, i, j)
      BY <1>1, <1>4, <2>1, KeptOnce DEF HasSegments
    <3>2. PICK k \in DOMAIN left[seg], l \in DOMAIN left[seg] :
            left[seg][k] = u[i] /\ left[seg][l] = u[j] /\ (k = l => i = j)
      BY <3>1 DEF OnceIn
    <3> QED
      BY <1>1, <2>1, <3>2 DEF OneEach, Lone
  <2>2. ASSUME NEW k \in DOMAIN es, t[seg][i] = es[k], NEW l \in DOMAIN es, t[seg][j] = es[l]
        PROVE  k = l
    <3>1. es[k] = ns[k] /\ es[l] = ns[l] /\ k \in DOMAIN ns /\ l \in DOMAIN ns
      BY <1>6, <1>8, <2>2
    <3> QED
      BY <2>2, <3>1 DEF Cleaned, OneEach
  <2>3. ASSUME NEW k \in DOMAIN u, NEW l \in DOMAIN es, u[k].id = es[l].id, es[l].id \in ArtifactIdentities
        PROVE  FALSE
    <3>1. u[k] \in Elements(left[seg])
      BY <1>5 DEF Elements
    <3> QED
      BY <1>9, <2>3, <3>1
  <2>4. InJoined(u, es, t[seg], i) /\ InJoined(u, es, t[seg], j)
    BY <1>7
  <2> QED
    BY <2>1, <2>2, <2>3, <2>4 DEF InJoined
<1>11. \A g \in Segments : \A m \in Elements(t[g]) :
         m \in Elements(left[g]) \/ (g = seg /\ \E i \in DOMAIN es : m = es[i])
  BY <1>2, <1>5, <1>7 DEF Elements
<1>12. ASSUME NEW g \in Segments, NEW h \in Segments, g # h, NEW m \in Elements(t[g]), NEW l \in Elements(t[h]),
              m.id = l.id, m.id \in ArtifactIdentities
       PROVE  FALSE
  <2>1. CASE m \in Elements(left[g]) /\ l \in Elements(left[h])
    <3>1. m.id \in IDs(left[g]) /\ l.id \in IDs(left[h])
      BY <2>1 DEF IDs, Elements
    <3> QED
      BY <1>1, <1>12, <3>1 DEF Lone
  <2>2. CASE m \notin Elements(left[g])
    BY <1>9, <1>11, <1>12, <2>2
  <2>3. CASE l \notin Elements(left[h])
    BY <1>9, <1>11, <1>12, <2>3
  <2> QED
    BY <2>1, <2>2, <2>3
<1>13. Lone(t)
  <2>1. \A g \in Segments : OneEach(t[g])
    BY <1>1, <1>2, <1>10 DEF Lone
  <2>2. \A g \in Segments : \A id \in IDs(t[g]) : \E m \in Elements(t[g]) : m.id = id
    BY DEF IDs, Elements
  <2> QED
    BY <1>12, <2>1, <2>2 DEF Lone
<1>14. ShowsOnly(t, A, c, {})
  <2> SUFFICES ASSUME NEW g \in Segments, NEW m \in Elements(t[g]), m.id \in ArtifactIdentities
               PROVE  \E a \in A : m = c[a]
    BY DEF ShowsOnly
  <2>1. CASE m \in Elements(left[g])
    <3>1. m \in Elements(s[g]) /\ m.id \notin R
      BY <1>1, <2>1
    <3> QED
      BY <3>1 DEF ShowsOnly
  <2>2. CASE m \notin Elements(left[g])
    <3>1. PICK i \in DOMAIN es : m = es[i]
      BY <1>11, <2>2
    <3>2. m = ns[i] /\ i \in DOMAIN ns
      BY <1>6, <1>8, <3>1
    <3> QED
      BY <3>2 DEF Cleaned
  <2> QED
    BY <2>1, <2>2
<1>15. ASSUME NEW a \in A
       PROVE  IsIn(t, c[a])
  <2>1. /\ a \in DOMAIN c /\ c[a].id = a.id /\ a.id \in ArtifactIdentities
        /\ c[a].origin.template = None /\ c[a].origin.layer = None
    BY CachedMessage DEF Active, IsArtifact
  <2>2. CASE c[a] \in Elements(ns)
    <3>1. PICK i \in DOMAIN ns : ns[i] = c[a]
      BY <2>2 DEF Elements
    <3>2. i \in DOMAIN es /\ es[i] = c[a]
      BY <1>6, <2>1, <3>1 DEF NamedAs
    <3>3. c[a] \in Elements(t[seg])
      BY <1>7, <3>2 DEF Elements
    <3> QED
      BY <3>3 DEF IsIn
  <2>3. CASE c[a] \notin Elements(ns)
    <3>1. a.id \notin R /\ IsIn(s, c[a])
      BY <2>3 DEF Cleaned
    <3>2. PICK g \in Segments : c[a] \in Elements(s[g])
      BY <3>1 DEF IsIn
    <3>3. c[a] \in Elements(left[g])
      BY <1>1, <2>1, <3>1, <3>2
    <3>4. c[a] \in Elements(t[g])
      <4>1. CASE g = seg
        BY <1>3, <1>4, <1>7, <2>1, <3>3, <4>1 DEF KeepsPlain
      <4>2. CASE g # seg
        BY <1>2, <3>3, <4>2
      <4> QED
        BY <4>1, <4>2
    <3> QED
      BY <3>4 DEF IsIn
  <2> QED
    BY <2>2, <2>3
<1>16. HasSegments(t)
  <2>1. \A g \in Segments : IsSequence(t[g])
    BY <1>1, <1>2, <1>7 DEF HasSegments
  <2> QED
    BY <1>2, <2>1 DEF HasSegments
<1> QED
  BY <1>13, <1>14, <1>15, <1>16 DEF Shows

-----------------------------------------------------------------------------
(* The inductive invariant of a preparation *)

\* The host's own identity policy leaves the prefix of artifact messages, too.
HostIDsApart == \A g, k : HostID(g, k) \notin ArtifactIdentities

\* The messages have identities, or none yet, and none of an artifact.
HostMessages(ms) == IsSequence(ms) /\ NoArtifacts(ms) /\ \A i \in DOMAIN ms : "id" \in DOMAIN ms[i]

RequestForm(r) ==
    /\ {"segs", "arts", "pending", "current", "identity", "args"} \subseteq DOMAIN r
    /\ r.identity \in {"none", "event", "host"} /\ IsSequence(r.args)
    /\ \A g \in Segments : r.segs[g] # None => HostMessages(r.segs[g])
    /\ HostMessages(r.pending)
    /\ r.current # None =>
         \A m \in {r.current.raw, PromptMessage(r.current)} :
            "id" \in DOMAIN m /\ m.id \notin ArtifactIdentities
    /\ IsSequence(r.arts) /\ \A i \in DOMAIN r.arts : IsArtifact(r.arts[i])

ResourceForm ==
    /\ rs = [active |-> rs.active, ids |-> rs.ids, removed |-> rs.removed]
    /\ ArtifactIDs(rs.active) \subseteq rs.ids /\ rs.ids \subseteq ArtifactIdentities
    /\ Distinct(rs.active)
    /\ Active(Elements(rs.active), cache)
    /\ block = [res |-> block.res, next |-> block.next, messages |-> block.messages]

\* Nothing has been prepared yet.
AtRest == cursor = 1 /\ cache = << >> /\ rs = [active |-> << >>, ids |-> {}, removed |-> {}]

Untouched == HasSegments(snap) /\ \A g \in Segments : HostMessages(snap[g])

\* The artifacts before the cursor have been considered.
Selecting ==
    /\ Untouched /\ cursor \in Nat \ {0}
    /\ rs.ids = ArtifactIDs(req.arts) /\ rs.removed = {}
    /\ \A a \in Elements(rs.active) : \E i \in DOMAIN req.arts : i < cursor /\ a = req.arts[i]

Prepared == Shows(snap, Elements(rs.active), cache) /\ rs.removed = {}

Admitting ==
    /\ InProgress(snap, block.messages, Elements(rs.active), cache, rs.removed)
    /\ block.res \in Resolved
    /\ cursor \in DOMAIN eng.blocks

PrepareInv ==
    /\ eng \in Engines /\ RequestForm(req) /\ ResourceForm /\ CacheOK(cache)
    /\ pc \in {"configure", "load", "recheck", "normalize", "opaque"} => AtRest
    /\ pc \in {"opaque", "select"} => Distinct(req.arts) /\ Untouched
    /\ pc = "select" => Selecting
    /\ pc \in {"deferred", "prepared"} => Prepared
    /\ pc = "resource" => Admitting

-----------------------------------------------------------------------------
(* Requests and identities *)

LEMMA HostMessagesOf ==
    ASSUME NEW ms, AreMessages(ms), NoArtifacts(ms)
    PROVE  HostMessages(ms)
BY SameSequences DEF AreMessages, HostMessages

LEMMA HostSegments ==
    ASSUME NEW segs, AreSegments(segs), HostIdentities(segs) \cap ArtifactIdentities = {},
           NEW g \in Segments, segs[g] # None
    PROVE  HostMessages(segs[g])
<1>1. IDs(segs[g]) \subseteq HostIdentities(segs)
  BY DEF HostIdentities
<1>2. NoArtifacts(segs[g])
  BY <1>1 DEF NoArtifacts
<1> QED
  BY <1>2, HostMessagesOf DEF AreSegments

LEMMA ArtifactsOf ==
    ASSUME NEW as, AreArtifacts(as), ArtifactIDs(as) \subseteq ArtifactIdentities
    PROVE  IsSequence(as) /\ \A i \in DOMAIN as : IsArtifact(as[i])
BY SameSequences DEF AreArtifacts, IsArtifact, ArtifactIDs

LEMMA GivenForm ==
    ASSUME NEW r \in Requests
    PROVE  RequestForm(r)
<1>1. /\ {"segs", "arts", "pending", "current", "identity", "args"} \subseteq DOMAIN r
      /\ r.identity \in {"none", "event", "host"} /\ r.args \in Seq(Elements(r.args))
      /\ AreSegments(r.segs) /\ AreMessages(r.pending) /\ AreArtifacts(r.arts)
      /\ r.current # None => "id" \in DOMAIN r.current.raw /\ "id" \in DOMAIN PromptMessage(r.current)
  BY InputsAssumption
<1>2. /\ (HostIdentities(r.segs) \cup IDs(r.pending)) \cap ArtifactIdentities = {}
      /\ r.current # None => {r.current.raw.id, PromptMessage(r.current).id} \cap ArtifactIdentities = {}
  BY IdentitiesAssumption
<1>3. \A g \in Segments : r.segs[g] # None => HostMessages(r.segs[g])
  BY <1>1, <1>2, HostSegments
<1>4. HostMessages(r.pending)
  BY <1>1, <1>2, HostMessagesOf DEF NoArtifacts
<1>5. ArtifactIDs(r.arts) \subseteq ArtifactIdentities
  BY DEF ArtifactIdentities
<1>6. IsSequence(r.arts) /\ \A i \in DOMAIN r.arts : IsArtifact(r.arts[i])
  BY <1>1, <1>5, ArtifactsOf
<1>7. IsSequence(r.args)
  BY <1>1, SameSequences
<1>8. r.current # None => \A m \in {r.current.raw, PromptMessage(r.current)} :
                            "id" \in DOMAIN m /\ m.id \notin ArtifactIdentities
  BY <1>1, <1>2
<1> QED
  BY <1>1, <1>3, <1>4, <1>6, <1>7, <1>8 DEF RequestForm

LEMMA LoadedForm ==
    ASSUME NEW r, RequestForm(r), NEW stored \in Stored
    PROVE  RequestForm(MergeCompileRequest(stored, r))
<1> DEFINE q == MergeCompileRequest(stored, r)
<1>1. /\ DOMAIN q = DOMAIN r
      /\ q.segs = [g \in Segments |-> IF r.segs[g] # None \/ g = "tools" THEN r.segs[g] ELSE stored.segs[g]]
      /\ q.arts = stored.arts \o r.arts
      /\ q.pending = r.pending /\ q.current = r.current /\ q.identity = r.identity /\ q.args = r.args
  BY DEF MergeCompileRequest, RequestForm
<1> HIDE DEF q
<1>2. AreSegments(stored.segs) /\ AreArtifacts(stored.arts)
  BY InputsAssumption
<1>3. HostIdentities(stored.segs) \cap ArtifactIdentities = {}
  BY IdentitiesAssumption
<1>4. \A g \in Segments : stored.segs[g] # None => HostMessages(stored.segs[g])
  BY <1>2, <1>3, HostSegments
<1>5. \A g \in Segments : q.segs[g] # None => HostMessages(q.segs[g])
  BY <1>1, <1>4 DEF RequestForm
<1>6. ArtifactIDs(stored.arts) \subseteq ArtifactIdentities
  BY DEF ArtifactIdentities
<1>7. IsSequence(stored.arts) /\ \A i \in DOMAIN stored.arts : IsArtifact(stored.arts[i])
  BY <1>2, <1>6, ArtifactsOf
<1>8. IsSequence(r.arts) /\ \A i \in DOMAIN r.arts : IsArtifact(r.arts[i])
  BY DEF RequestForm
<1>9. IsSequence(q.arts) /\ \A i \in DOMAIN q.arts : InJoined(stored.arts, r.arts, q.arts, i)
  <2>1. q.arts = stored.arts \o r.arts /\ IsSequence(stored.arts) /\ IsSequence(r.arts)
    BY <1>1, <1>7, <1>8
  <2>2. PICK a, b, w : a = stored.arts /\ b = r.arts /\ w = q.arts
    OBVIOUS
  <2>3. w = a \o b /\ IsSequence(a) /\ IsSequence(b)
    BY <2>1, <2>2
  <2>4. IsSequence(w) /\ \A i \in DOMAIN w : InJoined(a, b, w, i)
    BY ONLY <2>3, Joined
  <2> QED
    BY <2>2, <2>4
<1>10. \A i \in DOMAIN q.arts : IsArtifact(q.arts[i])
  BY <1>7, <1>8, <1>9 DEF InJoined
<1>11. RequestForm(q)
  BY <1>1, <1>5, <1>9, <1>10 DEF RequestForm
<1> QED
  BY <1>11 DEF q

\* An identity that is made up is not an artifact's.
LEMMA NamedIs ==
    ASSUME HostIDsApart, req.identity \in {"none", "event", "host"}, NEW m, "id" \in DOMAIN m, NEW at
    PROVE  /\ "id" \in DOMAIN Named(m, at)
           /\ IF m.id # NoID THEN Named(m, at) = [m EXCEPT !.id = m.id] /\ Named(m, at).id = m.id
              ELSE Named(m, at).id \notin ArtifactIdentities
<1> DEFINE i == CASE req.identity = "none" -> FreshID(at)
                  [] req.identity = "event" -> EventID(req.turn, at)
                  [] req.identity = "host" -> HostID(at.segment, at.index)
<1>1. FreshID(at) \notin ArtifactIdentities
  <2>1. FreshID(at)[1] = "random"
    BY DEF FreshID
  <2> QED
    BY <2>1, IdentitiesAssumption
<1>2. EventID(req.turn, at) \notin ArtifactIdentities
  <2>1. EventID(req.turn, at)[1] = "event"
    BY DEF EventID
  <2> QED
    BY <2>1, IdentitiesAssumption
<1>3. i \notin ArtifactIdentities
  <2>1. CASE req.identity = "none"
    BY <1>1, <2>1
  <2>2. CASE req.identity = "event"
    BY <1>2, <2>2
  <2>3. CASE req.identity = "host"
    <3>1. i = HostID(at.segment, at.index)
      BY <2>3
    <3> QED
      BY <3>1 DEF HostIDsApart
  <2> QED
    BY <2>1, <2>2, <2>3
<1>4. Named(m, at) = [m EXCEPT !.id = IF m.id # NoID THEN m.id ELSE i]
  BY DEF Named
<1> HIDE DEF i
<1> QED
  BY <1>3, <1>4

LEMMA NamedApart ==
    ASSUME HostIDsApart, req.identity \in {"none", "event", "host"}, NEW m, "id" \in DOMAIN m,
           m.id \notin ArtifactIdentities, NEW at
    PROVE  "id" \in DOMAIN Named(m, at) /\ Named(m, at).id \notin ArtifactIdentities
BY NamedIs

\* A message with an artifact's identity keeps it.
LEMMA NamedKept ==
    ASSUME HostIDsApart, req.identity \in {"none", "event", "host"}, NEW m, "id" \in DOMAIN m,
           m.id \in ArtifactIdentities, NEW at
    PROVE  Named(m, at) = [m EXCEPT !.id = m.id]
<1>1. m.id # NoID
  BY IdentitiesAssumption
<1> QED
  BY <1>1, NamedIs

-----------------------------------------------------------------------------
(* The steps before the deferred blocks *)

LEMMA FailedInv ==
    ASSUME PrepareInv, NEW err, Fail(err)
    PROVE  PrepareInv'
<1>1. /\ eng' = eng /\ req' = req /\ cache' = cache /\ rs' = rs /\ block' = block /\ pc' = "failed"
  BY DEF Fail, source, content
<1>2. ResourceForm'
  BY <1>1 DEF PrepareInv, ResourceForm
<1> QED
  BY <1>1, <1>2 DEF PrepareInv

LEMMA InitPrepareInv ==
    ASSUME PrepareInit
    PROVE  PrepareInv
<1>1. RequestForm(req)
  BY GivenForm DEF PrepareInit
<1>2. ResourceForm
  <2>1. rs.active = << >> /\ Elements(rs.active) = {} /\ rs.ids = {}
    BY DEF PrepareInit, Elements
  <2>2. Distinct(rs.active)
    BY <2>1 DEF Distinct, IsSequence
  <2>3. ArtifactIDs(rs.active) = {}
    BY <2>1 DEF ArtifactIDs
  <2>4. /\ rs = [active |-> rs.active, ids |-> rs.ids, removed |-> rs.removed]
        /\ block = [res |-> block.res, next |-> block.next, messages |-> block.messages]
    BY DEF PrepareInit, NoBlock
  <2> QED
    BY <2>1, <2>2, <2>3, <2>4 DEF ResourceForm, Active
<1>3. CacheOK(cache)
  BY DEF PrepareInit, CacheOK
<1> QED
  BY <1>1, <1>2, <1>3 DEF PrepareInit, PrepareInv, AtRest

\* The stages that do not change what is prepared.
LEMMA EarlyInv ==
    ASSUME PrepareInv, pc \in {"configure", "load", "recheck"}, pc' \in {"load", "recheck", "normalize"},
           RequestForm(req'), UNCHANGED <<eng, cursor, content, cache, rs, block>>
    PROVE  PrepareInv'
<1>1. ResourceForm'
  BY DEF PrepareInv, ResourceForm
<1>2. AtRest'
  BY DEF PrepareInv, AtRest
<1> QED
  BY <1>1, <1>2 DEF PrepareInv

LEMMA SourceInv ==
    ASSUME PrepareInv, CheckConfiguration \/ LoadSnapshot \/ Recheck
    PROVE  PrepareInv'
<1>1. CASE CheckConfiguration
  BY <1>1, FailedInv, EarlyInv DEF CheckConfiguration, source, PrepareInv
<1>2. CASE LoadSnapshot
  <2>1. CASE \E err : Fail(err)
    BY <2>1, FailedInv
  <2>2. ASSUME NEW stored \in Stored, req' = MergeCompileRequest(stored, req), pc' = "recheck",
               UNCHANGED <<eng, cursor, content, cache, rs, block, answer>>
        PROVE  PrepareInv'
    <3>1. RequestForm(req')
      BY <2>2, LoadedForm DEF PrepareInv
    <3> QED
      BY <1>2, <2>2, <3>1, EarlyInv DEF LoadSnapshot
  <2> QED
    BY <1>2, <2>1, <2>2 DEF LoadSnapshot
<1>3. CASE Recheck
  BY <1>3, FailedInv, EarlyInv DEF Recheck, source, PrepareInv
<1> QED
  BY <1>1, <1>2, <1>3

LEMMA NormalizedForm ==
    ASSUME RequestForm(req), req' = [req EXCEPT !.arts = MergeArtifacts(@)]
    PROVE  Distinct(req'.arts) /\ RequestForm(req')
<1> DEFINE as == MergeArtifacts(req.arts)
<1>1. Distinct(as)
  BY MergedDistinct DEF RequestForm
<1>2. req' = [req EXCEPT !.arts = as]
  OBVIOUS
<1> HIDE DEF as
<1>3. /\ DOMAIN req' = DOMAIN req /\ req'.arts = as
      /\ req'.segs = req.segs /\ req'.pending = req.pending /\ req'.current = req.current
      /\ req'.identity = req.identity /\ req'.args = req.args
  BY <1>2 DEF RequestForm
<1> QED
  BY <1>1, <1>3 DEF RequestForm, Distinct

LEMMA NormalizeInv ==
    ASSUME HostIDsApart, PrepareInv, Normalize
    PROVE  PrepareInv'
<1>1. CASE \E err : Fail(err)
  BY <1>1, FailedInv
<1>2. CASE ~\E err : Fail(err)
  <2>1. /\ snap' = [g \in Segments |-> NamedSegment(g)]
        /\ req' = [req EXCEPT !.arts = MergeArtifacts(@)]
        /\ pc' = "opaque" /\ eng' = eng /\ cursor' = cursor /\ cache' = cache /\ rs' = rs /\ block' = block
    BY <1>2 DEF Normalize
  <2>2. RequestForm(req) /\ AtRest
    BY DEF PrepareInv, Normalize
  <2>3. Distinct(req'.arts) /\ RequestForm(req')
    BY <2>1, <2>2, NormalizedForm
  <2>6. ASSUME NEW g \in Segments
        PROVE  HostMessages(NamedSegment(g))
    <3>1. PICK ms : ms = Requested(g)
      OBVIOUS
    <3>2. HostMessages(ms)
      <4>1. CASE req.segs[g] = None
        <5>1. ms = << >>
          BY <3>1, <4>1 DEF Requested
        <5> QED
          BY <5>1 DEF HostMessages, NoArtifacts, IDs, IsSequence
      <4>2. CASE req.segs[g] # None
        BY <2>2, <3>1, <4>2 DEF Requested, RequestForm
      <4> QED
        BY <4>1, <4>2
    <3>3. PICK ns : ns = [k \in DOMAIN ms |-> Named(ms[k], At(g, k, k))]
      OBVIOUS
    <3>4. ASSUME NEW k \in DOMAIN ns
          PROVE  "id" \in DOMAIN ns[k] /\ ns[k].id \notin ArtifactIdentities
      <4>1. "id" \in DOMAIN ms[k] /\ ms[k].id \notin ArtifactIdentities /\ ns[k] = Named(ms[k], At(g, k, k))
        BY <3>2, <3>3 DEF HostMessages, NoArtifacts, IDs
      <4> QED
        BY <2>2, <4>1, NamedApart DEF RequestForm
    <3>5. IsSequence(ns)
      <4>1. PICK n \in Nat : n = Len(ms) /\ DOMAIN ms = 1..n
        BY <3>2, SequenceDomain DEF HostMessages
      <4>2. DOMAIN ns = 1..n /\ ns = [k \in 1..n |-> ns[k]]
        BY <3>3, <4>1
      <4> QED
        BY <4>2, FunctionIsSequence
    <3>6. HostMessages(ns)
      BY <3>4, <3>5 DEF HostMessages, NoArtifacts, IDs
    <3> QED
      BY <3>1, <3>3, <3>6 DEF NamedSegment
  <2>7. Untouched'
    <3>1. HasSegments(snap') /\ \A g \in Segments : HostMessages(snap'[g])
      BY <2>1, <2>6 DEF HasSegments, HostMessages
    <3> QED
      BY <3>1 DEF Untouched
  <2>8. ResourceForm' /\ AtRest'
    BY <2>1, <2>2 DEF PrepareInv, ResourceForm, AtRest
  <2> QED
    BY <2>1, <2>3, <2>7, <2>8 DEF PrepareInv
<1> QED
  BY <1>1, <1>2

LEMMA StartInv ==
    ASSUME PrepareInv, StartPreparation
    PROVE  PrepareInv'
<1>1. CASE \E err : Fail(err)
  BY <1>1, FailedInv
<1>2. CASE ~\E err : Fail(err)
  <2>1. /\ rs' = [rs EXCEPT !.ids = ArtifactIDs(req.arts)] /\ pc = "opaque" /\ pc' = "select"
        /\ eng' = eng /\ req' = req /\ cursor' = cursor /\ snap' = snap /\ cache' = cache /\ block' = block
    BY <1>2 DEF StartPreparation, source, content
  <2>2. AtRest /\ Distinct(req.arts) /\ Untouched /\ ResourceForm
    BY <2>1 DEF PrepareInv
  <2>3. rs' = [active |-> << >>, ids |-> ArtifactIDs(req.arts), removed |-> {}] /\ rs.active = << >>
    BY <2>1, <2>2 DEF AtRest
  <2>4. ArtifactIDs(req.arts) \subseteq ArtifactIdentities
    BY <2>2 DEF Distinct, IsArtifact, ArtifactIDs
  <2>5. ResourceForm'
    <3>1. rs'.active = rs.active /\ ArtifactIDs(rs.active) = {} /\ rs'.ids = ArtifactIDs(req.arts)
      BY <2>3 DEF ArtifactIDs
    <3>2. rs' = [active |-> rs'.active, ids |-> rs'.ids, removed |-> rs'.removed]
      BY <2>3
    <3> QED
      BY <2>1, <2>2, <2>4, <3>1, <3>2 DEF ResourceForm
  <2>6. Untouched'
    BY <2>1, <2>2 DEF Untouched
  <2>7. Selecting'
    <3>1. Elements(rs'.active) = {} /\ rs'.removed = {} /\ rs'.ids = ArtifactIDs(req.arts)
      BY <2>3 DEF Elements
    <3>2. cursor' = 1
      BY <2>1, <2>2 DEF AtRest
    <3> QED
      BY <2>1, <2>6, <3>1, <3>2 DEF Selecting
  <2> QED
    BY <2>1, <2>2, <2>5, <2>6, <2>7 DEF PrepareInv
<1> QED
  BY <1>1, <1>2

LEMMA SelectInv ==
    ASSUME PrepareInv, SelectArtifact
    PROVE  PrepareInv'
<1>1. CASE \E err : Fail(err)
  BY <1>1, FailedInv
<1>2. CASE ~\E err : Fail(err)
  <2> DEFINE a == req.arts[cursor]
  <2>1. /\ pc = "select" /\ pc' = "select" /\ cursor \in DOMAIN req.arts /\ cursor' = cursor + 1
        /\ eng' = eng /\ req' = req /\ snap' = snap /\ block' = block
    BY <1>2 DEF SelectArtifact, source, content, MaterializeFails
  <2>2. \/ cache' = cache /\ rs' = rs
        \/ \E m \in MessagesOf(a) : Materialize(cache, a, m) /\ rs' = [rs EXCEPT !.active = UpsertArtifact(@, a)]
    BY <1>2 DEF SelectArtifact, MaterializeFails
  <2>3. Selecting /\ Distinct(req.arts) /\ Untouched /\ ResourceForm /\ CacheOK(cache)
    BY <2>1 DEF PrepareInv
  <2>4. IsArtifact(a)
    BY <2>1, <2>3 DEF Distinct
  <2>5. cursor + 1 \in Nat \ {0} /\ cursor < cursor + 1 /\ \A i \in Nat : i < cursor => i < cursor + 1 /\ i # cursor
    BY <2>3 DEF Selecting
  <2>6. \A i \in DOMAIN req.arts : i \in Nat
    BY <2>3, SequenceDomain DEF Distinct
  <2> HIDE DEF a
  <2>7. /\ ResourceForm' /\ CacheOK(cache') /\ rs'.ids = rs.ids /\ rs'.removed = rs.removed
        /\ \A b \in Elements(rs'.active) : b = a \/ b \in Elements(rs.active)
    <3>1. CASE cache' = cache /\ rs' = rs
      BY <2>1, <2>3, <3>1 DEF ResourceForm
    <3>2. CASE \E m \in MessagesOf(a) : Materialize(cache, a, m) /\ rs' = [rs EXCEPT !.active = UpsertArtifact(@, a)]
      <4>1. PICK m \in MessagesOf(a) : Materialize(cache, a, m)
        BY <3>2
      <4>2. PICK after : after = UpsertArtifact(rs.active, a)
        OBVIOUS
      <4>3. rs' = [active |-> after, ids |-> rs.ids, removed |-> rs.removed]
        BY <2>3, <3>2, <4>2 DEF ResourceForm
      <4>4. CacheOK(cache') /\ Knows(cache', cache) /\ a \in DOMAIN cache'
        BY <2>3, <4>1, Materialized
      <4>5. UpsertIs(rs.active, a, after)
        BY <2>3, <2>4, <4>2, UpsertDistinct DEF ResourceForm
      \* No artifact before has the identity of a.
      <4>6. ASSUME NEW k \in DOMAIN rs.active, rs.active[k].id = a.id
            PROVE  FALSE
        <5>1. rs.active[k] \in Elements(rs.active)
          BY DEF Elements
        <5>2. PICK i \in DOMAIN req.arts : i < cursor /\ rs.active[k] = req.arts[i]
          BY <2>3, <5>1 DEF Selecting
        <5> QED
          BY <2>1, <2>3, <2>5, <2>6, <4>6, <5>2 DEF Distinct, a
      <4>7. PICK j \in DOMAIN after : after[j].id = a.id /\ after[j] = a
        BY <4>5, <4>6 DEF UpsertIs
      <4>8. ASSUME NEW b \in Elements(after)
            PROVE  b = a \/ b \in Elements(rs.active)
        <5>1. PICK l \in DOMAIN after : after[l] = b
          BY DEF Elements
        <5> QED
          BY <4>5, <4>7, <5>1 DEF UpsertIs, Distinct
      <4>9. Distinct(after)
        BY <4>5 DEF UpsertIs
      <4>10. Active(Elements(after), cache')
        <5>1. \A b \in Elements(after) : IsArtifact(b) /\ b \in DOMAIN cache'
          BY <2>3, <2>4, <4>4, <4>8 DEF ResourceForm, Active, Knows
        <5>2. \A b, d \in Elements(after) : b.id = d.id => b = d
          BY <4>9 DEF Distinct, Elements
        <5> QED
          BY <5>1, <5>2 DEF Active
      <4>11. ArtifactIDs(after) \subseteq rs.ids
        <5>1. a.id \in rs.ids
          BY <2>1, <2>3 DEF Selecting, ArtifactIDs, a
        <5>2. \A b \in Elements(rs.active) : b.id \in rs.ids
          BY <2>3 DEF ResourceForm, ArtifactIDs, Elements
        <5>3. \A l \in DOMAIN after : after[l] \in Elements(after)
          BY DEF Elements
        <5> QED
          BY <4>8, <5>1, <5>2, <5>3 DEF ArtifactIDs
      <4>12. ResourceForm'
        BY <2>1, <2>3, <4>3, <4>9, <4>10, <4>11 DEF ResourceForm
      <4> QED
        BY <4>3, <4>4, <4>8, <4>12
    <3> QED
      BY <2>2, <3>1, <3>2
  <2>8. Untouched'
    BY <2>1, <2>3 DEF Untouched
  <2>9. Selecting'
    <3>1. ASSUME NEW b \in Elements(rs'.active)
          PROVE  \E i \in DOMAIN req.arts : i < cursor + 1 /\ b = req.arts[i]
      <4>1. CASE b = a
        BY <2>1, <2>5, <4>1 DEF a
      <4>2. CASE b \in Elements(rs.active)
        BY <2>3, <2>5, <2>6, <4>2 DEF Selecting
      <4> QED
        BY <2>7, <4>1, <4>2
    <3> QED
      BY <2>1, <2>3, <2>5, <2>7, <2>8, <3>1 DEF Selecting
  <2> QED
    BY <2>1, <2>3, <2>7, <2>8, <2>9 DEF PrepareInv
<1> QED
  BY <1>1, <1>2

\* The messages of the artifacts come behind a segment that has none.
LEMMA ArtifactsShown ==
    ASSUME NEW s, HasSegments(s), \A g \in Segments : NoArtifacts(s[g]),
           NEW as, Distinct(as), NEW c, CacheOK(c), Active(Elements(as), c),
           NEW seg \in Segments, NEW ms, ms = [k \in DOMAIN as |-> c[as[k]]],
           NEW t, HasSegments(t), t[seg] = s[seg] \o ms,
           \A g \in Segments \ {seg} : NoArtifacts(t[g])
    PROVE  Shows(t, Elements(as), c)
<1> DEFINE A == Elements(as)
<1>1. \A a \in A : a \in DOMAIN c /\ c[a].id = a.id /\ a.id \in ArtifactIdentities
  BY CachedMessage DEF Active, IsArtifact
<1>2. \A k \in DOMAIN as : as[k] \in A
  BY DEF Elements
<1>3. DOMAIN ms = DOMAIN as /\ \A k \in DOMAIN as : ms[k] = c[as[k]] /\ ms[k].id = as[k].id
  BY <1>1, <1>2
<1>4. IsSequence(ms)
  <2>1. PICK n \in Nat : n = Len(as) /\ DOMAIN as = 1..n
    BY SequenceDomain DEF Distinct
  <2>2. ms = [k \in 1..n |-> ms[k]]
    BY <2>1
  <2> QED
    BY <2>2, FunctionIsSequence
<1>5. PICK w : w = t[seg]
  OBVIOUS
<1>6. PICK u : u = s[seg]
  OBVIOUS
<1>7. IsSequence(u) /\ NoArtifacts(u)
  BY <1>6 DEF HasSegments
<1>8. w = u \o ms
  BY <1>5, <1>6
<1> HIDE DEF A
<1>9. /\ \A i \in DOMAIN w : InJoined(u, ms, w, i)
      /\ Elements(w) = Elements(u) \cup Elements(ms)
  BY ONLY <1>4, <1>7, <1>8, Joined
<1>10. \A i \in DOMAIN u : u[i].id \notin ArtifactIdentities
  BY <1>7 DEF NoArtifacts, IDs
<1>11. OneEach(w)
  <2> SUFFICES ASSUME NEW i \in DOMAIN w, NEW j \in DOMAIN w, w[i].id = w[j].id, w[i].id \in ArtifactIdentities
               PROVE  i = j
    BY DEF OneEach
  <2>1. PICK k \in DOMAIN ms : i = Len(u) + k /\ w[i] = ms[k]
    BY <1>9, <1>10 DEF InJoined
  <2>2. InJoined(u, ms, w, j) /\ w[j].id \in ArtifactIdentities
    BY <1>9
  <2>3. PICK l \in DOMAIN ms : j = Len(u) + l /\ w[j] = ms[l]
    BY ONLY <1>10, <2>2 DEF InJoined
  <2>4. as[k].id = as[l].id /\ k \in DOMAIN as /\ l \in DOMAIN as
    BY <1>3, <2>1, <2>3
  <2>5. k = l
    BY <2>4 DEF Distinct
  <2> QED
    BY <2>1, <2>3, <2>5
<1>12. Lone(t)
  <2>1. \A g \in Segments \ {seg} : OneEach(t[g]) /\ IDs(t[g]) \cap ArtifactIdentities = {}
    BY DEF OneEach, NoArtifacts, IDs
  <2> QED
    BY <1>5, <1>11, <2>1 DEF Lone
<1>13. ShowsOnly(t, A, c, {})
  <2> SUFFICES ASSUME NEW g \in Segments, NEW m \in Elements(t[g]), m.id \in ArtifactIdentities
               PROVE  \E a \in A : m = c[a]
    BY DEF ShowsOnly
  <2>1. g = seg
    BY DEF NoArtifacts, IDs, Elements
  <2>2. m \in Elements(ms)
    BY <1>5, <1>9, <1>10, <2>1 DEF Elements
  <2>3. PICK k \in DOMAIN ms : m = ms[k]
    BY <2>2 DEF Elements
  <2> QED
    BY <1>2, <1>3, <2>3
<1>14. ASSUME NEW a \in A
       PROVE  IsIn(t, c[a])
  <2>1. PICK k \in DOMAIN as : as[k] = a
    BY DEF A, Elements
  <2>2. c[a] \in Elements(ms)
    BY <1>3, <2>1 DEF Elements
  <2>3. c[a] \in Elements(t[seg])
    BY <1>5, <1>9, <2>2
  <2> QED
    BY <2>3 DEF IsIn
<1> QED
  BY <1>12, <1>13, <1>14 DEF Shows, A

LEMMA AddInv ==
    ASSUME PrepareInv, AddArtifactMessages
    PROVE  PrepareInv'
<1> DEFINE ms == [k \in DOMAIN rs.active |-> cache[rs.active[k]]]
           h == FoldLeft(OffloadArgument, snap["history"], req.args)
<1>1. /\ pc = "select" /\ pc' = "deferred" /\ rs' = rs /\ cache' = cache /\ block' = block
      /\ eng' = eng /\ req' = req
      /\ snap' = [WithActiveArtifacts(snap) EXCEPT !["history"] = FoldLeft(OffloadArgument, @, req.args)]
  BY DEF AddArtifactMessages, source
<1>2. Selecting /\ Untouched /\ ResourceForm /\ CacheOK(cache) /\ RequestForm(req)
  BY <1>1 DEF PrepareInv
<1>3. WithActiveArtifacts(snap) = [snap EXCEPT !["memory"] = snap["memory"] \o ms]
  BY DEF WithActiveArtifacts
<1> HIDE DEF ms
<1>4. /\ WithActiveArtifacts(snap)["history"] = snap["history"]
      /\ WithActiveArtifacts(snap)["memory"] = snap["memory"] \o ms
      /\ \A g \in Segments \ {"memory"} : WithActiveArtifacts(snap)[g] = snap[g]
      /\ WithActiveArtifacts(snap) = [g \in Segments |-> WithActiveArtifacts(snap)[g]]
  BY <1>2, <1>3 DEF Untouched, HasSegments, Segments
<1>5. snap' = [WithActiveArtifacts(snap) EXCEPT !["history"] = h]
  BY <1>1, <1>4
<1> HIDE DEF h
<1>6. /\ snap' = [g \in Segments |-> snap'[g]]
      /\ snap'["history"] = h /\ snap'["memory"] = snap["memory"] \o ms
      /\ \A g \in Segments \ {"memory", "history"} : snap'[g] = snap[g]
  BY <1>4, <1>5 DEF Segments
<1>7. SameIDs(snap["history"], h)
  <2>1. HostMessages(snap["history"])
    BY <1>2 DEF Untouched, Segments
  <2>2. IsSequence(req.args)
    BY <1>2 DEF RequestForm
  <2> QED
    BY <2>1, <2>2, OffloadsKeepIDs DEF HostMessages, h
<1>8. NoArtifacts(h) /\ IsSequence(h)
  <2>1. NoArtifacts(snap["history"])
    BY <1>2 DEF Untouched, HostMessages, Segments
  <2> QED
    BY <1>7, <2>1 DEF SameIDs, NoArtifacts, IDs
<1>9. IsSequence(ms)
  <2>1. PICK n \in Nat : n = Len(rs.active) /\ DOMAIN rs.active = 1..n
    BY <1>2, SequenceDomain DEF ResourceForm, Distinct
  <2>2. ms = [k \in 1..n |-> ms[k]]
    BY <2>1 DEF ms
  <2> QED
    BY <2>2, FunctionIsSequence
<1>10. IsSequence(snap'["memory"])
  <2>1. IsSequence(snap["memory"])
    BY <1>2 DEF Untouched, HasSegments, Segments
  <2>2. PICK w : w = snap'["memory"]
    OBVIOUS
  <2>3. w = snap["memory"] \o ms
    BY <1>6, <2>2
  <2>4. IsSequence(w)
    BY ONLY <1>9, <2>1, <2>3, Joined
  <2> QED
    BY <2>2, <2>4
<1>11. HasSegments(snap')
  <2>1. \A g \in Segments : IsSequence(snap'[g])
    BY <1>2, <1>6, <1>8, <1>10 DEF Untouched, HasSegments
  <2> QED
    BY <1>6, <2>1 DEF HasSegments
<1>12. \A g \in Segments \ {"memory"} : NoArtifacts(snap'[g])
  BY <1>2, <1>6, <1>8 DEF Untouched, HostMessages
<1>13. Shows(snap', Elements(rs.active), cache)
  <2>1. HasSegments(snap) /\ \A g \in Segments : NoArtifacts(snap[g])
    BY <1>2 DEF Untouched, HostMessages
  <2>2. Distinct(rs.active) /\ Active(Elements(rs.active), cache) /\ "memory" \in Segments
    BY <1>2 DEF ResourceForm, Segments
  <2>3. snap'["memory"] = snap["memory"] \o ms /\ ms = [k \in DOMAIN rs.active |-> cache[rs.active[k]]]
    BY <1>6 DEF ms
  <2>4. PICK t : t = snap'
    OBVIOUS
  <2>5. /\ HasSegments(t) /\ t["memory"] = snap["memory"] \o ms
        /\ \A g \in Segments \ {"memory"} : NoArtifacts(t[g])
    BY <1>11, <1>12, <2>3, <2>4
  <2>6. Shows(t, Elements(rs.active), cache)
    BY ONLY <1>2, <2>1, <2>2, <2>3, <2>5, ArtifactsShown
  <2> QED
    BY <2>4, <2>6
<1>14. Prepared'
  BY <1>1, <1>2, <1>13 DEF Prepared, Selecting
<1>15. ResourceForm'
  BY <1>1, <1>2 DEF ResourceForm
<1> QED
  BY <1>1, <1>2, <1>14, <1>15 DEF PrepareInv

-----------------------------------------------------------------------------
(* The steps of the deferred blocks *)

LEMMA ResolveBlockInv ==
    ASSUME PrepareInv, ResolveBlock
    PROVE  PrepareInv'
<1>1. CASE \E err : Fail(err)
  BY <1>1, FailedInv
<1>2. CASE ~\E err : Fail(err)
  <2>1. PICK res \in Resolutions(eng.blocks[cursor]) :
          /\ HostMessagesDistinct(res)
          /\ block' = [res |-> res, next |-> 1, messages |-> res.messages]
    BY <1>2 DEF ResolveBlock
  <2>2. /\ pc = "deferred" /\ pc' = "resource" /\ cursor \in DOMAIN eng.blocks
        /\ eng' = eng /\ req' = req /\ cursor' = cursor /\ snap' = snap /\ cache' = cache /\ rs' = rs
    BY <1>2 DEF ResolveBlock, source, content
  <2>3. Prepared /\ ResourceForm /\ eng \in Engines
    BY <2>2 DEF PrepareInv
  <2>4. res \in Resolved
    BY <2>2, <2>3 DEF Resolved
  <2>5. IsSequence(res.messages) /\ \A i \in DOMAIN res.messages : "id" \in DOMAIN res.messages[i]
    BY <2>4, InputsAssumption, SameSequences DEF AreMessages
  <2>6. \A i \in DOMAIN res.messages : res.messages[i].id \notin ArtifactIdentities
    BY <2>1, <2>4, IdentitiesAssumption DEF IDs
  <2>7. InProgress(snap, res.messages, Elements(rs.active), cache, rs.removed)
    BY <2>3, <2>5, <2>6 DEF Prepared, Shows, InProgress
  <2>8. Admitting'
    BY <2>1, <2>2, <2>4, <2>7 DEF Admitting
  <2>9. ResourceForm'
    BY <2>1, <2>2, <2>3 DEF ResourceForm
  <2> QED
    BY <2>2, <2>8, <2>9 DEF PrepareInv
<1> QED
  BY <1>1, <1>2

\* A resource that is committed takes the place of what it replaces.
LEMMA CommitAdmits ==
    ASSUME NEW as, Distinct(as), NEW a, IsArtifact(a), AppendTargets(as, a) = {},
           ~RetainsExisting(as, a), NEW R, NEW after, after = UpsertArtifact(as, a)
    PROVE  Distinct(after) /\ Admits(Elements(as), R, a, Elements(after), R \cup Replaced(as, after, a))
<1> DEFINE A == Elements(as)
           B == Elements(after)
           Q == R \cup Replaced(as, after, a)
<1>1. UpsertIs(as, a, after)
  BY UpsertDistinct
<1>2. PICK j \in DOMAIN after :
        /\ after[j].id = a.id
        /\ \/ after[j] = a
           \/ \E i \in DOMAIN as : as[i].id = a.id /\ a.life # "ephemeral" /\ after[j] = MergeArtifact(as[i], a)
  BY <1>1 DEF UpsertIs
<1>3. after[j] = a
  <2> SUFFICES ASSUME NEW i \in DOMAIN as, as[i].id = a.id, a.life # "ephemeral",
                      after[j] = MergeArtifact(as[i], a)
               PROVE  after[j] = a
    BY <1>2
  <2>1. a.policy # "append"
    BY DEF AppendTargets
  <2>2. a.policy = "dedup" => ~ShareSourceLayer(as[i], a)
    BY DEF RetainsExisting
  <2> QED
    BY <2>1, <2>2 DEF MergeArtifact
<1>4. Distinct(after)
  BY <1>1 DEF UpsertIs
<1>5. a \in B
  BY <1>3 DEF Elements
<1>6. ASSUME NEW b \in B
      PROVE  b = a \/ (b \in A /\ b.id # a.id)
  <2>1. PICK l \in DOMAIN after : after[l] = b
    BY DEF Elements
  <2>2. CASE b.id = a.id
    <3>1. l = j
      BY <1>2, <1>4, <2>1, <2>2 DEF Distinct
    <3> QED
      BY <1>3, <2>1, <3>1
  <2>3. CASE b.id # a.id
    BY <1>1, <2>1, <2>3 DEF UpsertIs
  <2> QED
    BY <2>2, <2>3
<1>7. \A x \in A : (x \notin B \/ x.id = a.id) => x.id \in Replaced(as, after, a)
  <2> SUFFICES ASSUME NEW k \in DOMAIN as, as[k] \notin B \/ as[k].id = a.id
               PROVE  as[k].id \in Replaced(as, after, a)
    BY DEF Elements
  <2> QED
    BY DEF Replaced
<1>8. \A id \in Replaced(as, after, a) : id = a.id \/ \E x \in A : x.id = id /\ x \notin B
  BY DEF Replaced, Elements
<1> HIDE DEF A, B
<1>9. Admits(A, R, a, B, Q)
  BY <1>5, <1>6, <1>7, <1>8 DEF Admits
<1> QED
  BY <1>4, <1>9 DEF A, B

\* An artifact that is extended takes its own place.
LEMMA AppendAdmits ==
    ASSUME NEW as, Distinct(as), NEW k \in DOMAIN as, NEW x, IsArtifact(x), x.id = as[k].id,
           NEW R, NEW after, after = [as EXCEPT ![k] = x]
    PROVE  Distinct(after) /\ Admits(Elements(as), R, x, Elements(after), R \cup {x.id})
<1> DEFINE A == Elements(as)
           B == Elements(after)
<1>1. /\ Distinct(after) /\ DOMAIN after = DOMAIN as /\ after[k] = x
      /\ \A j \in DOMAIN as \ {k} : after[j] = as[j]
  BY ElementReplaced
<1>2. x \in B
  BY <1>1 DEF Elements
<1>3. ASSUME NEW b \in B
      PROVE  b = x \/ (b \in A /\ b.id # x.id)
  <2>1. PICK l \in DOMAIN after : after[l] = b
    BY DEF Elements
  <2>2. CASE l = k
    BY <1>1, <2>1, <2>2
  <2>3. CASE l # k
    BY <1>1, <2>1, <2>3 DEF Elements, Distinct
  <2> QED
    BY <2>2, <2>3
<1>4. ASSUME NEW a \in A, a \notin B \/ a.id = x.id
      PROVE  a.id = x.id
  <2>1. PICK l \in DOMAIN as : as[l] = a
    BY DEF Elements
  <2> QED
    BY <1>1, <1>4, <2>1 DEF Elements
<1> HIDE DEF A, B
<1>5. Admits(A, R, x, B, R \cup {x.id})
  BY <1>2, <1>3, <1>4 DEF Admits
<1> QED
  BY <1>1, <1>5 DEF A, B

LEMMA AdmittedActive ==
    ASSUME NEW A, NEW c, Active(A, c), NEW R, NEW x, NEW B, NEW Q, Admits(A, R, x, B, Q),
           IsArtifact(x), x \in DOMAIN c
    PROVE  Active(B, c)
BY DEF Active, Admits

\* The block after a resource.
LEMMA AdmittedInv ==
    ASSUME PrepareInv, pc = "resource", UNCHANGED <<pc, source, cursor, content>>,
           NEW a, IsArtifact(a), NEW active, NEW removed, NEW messages,
           Admitted(a, active, removed, messages), CacheOK(cache'), Distinct(active),
           Active(Elements(active), cache'), ArtifactIDs(active) \subseteq rs.ids \cup {a.id},
           InProgress(snap, block.messages \o messages, Elements(active), cache', rs.removed \cup removed)
    PROVE  PrepareInv'
<1>1. ResourceForm /\ Admitting
  BY DEF PrepareInv
<1>2. /\ rs' = [active |-> active, ids |-> rs.ids \cup {a.id}, removed |-> rs.removed \cup removed]
      /\ block' = [res |-> block.res, next |-> block.next + 1, messages |-> block.messages \o messages]
  BY <1>1 DEF Admitted, ResourceForm
<1>3. eng' = eng /\ req' = req /\ cursor' = cursor /\ snap' = snap /\ pc' = "resource"
  BY DEF source, content
<1>4. /\ rs' = [active |-> rs'.active, ids |-> rs'.ids, removed |-> rs'.removed]
      /\ block' = [res |-> block'.res, next |-> block'.next, messages |-> block'.messages]
      /\ rs'.active = active /\ rs'.ids = rs.ids \cup {a.id} /\ rs'.removed = rs.removed \cup removed
      /\ block'.res = block.res /\ block'.messages = block.messages \o messages
  BY <1>2
<1>5. ResourceForm'
  BY <1>1, <1>4 DEF ResourceForm, IsArtifact
<1>6. Admitting'
  BY <1>1, <1>3, <1>4 DEF Admitting
<1> QED
  BY <1>3, <1>5, <1>6 DEF PrepareInv

\* The same, for an artifact x that comes in, with its message.
LEMMA BroughtInv ==
    ASSUME PrepareInv, pc = "resource", UNCHANGED <<pc, source, cursor, content>>,
           NEW a, IsArtifact(a), NEW x, IsArtifact(x), x.id = a.id, NEW active, NEW removed,
           Admitted(a, active, removed, <<cache'[x]>>), CacheOK(cache'), Knows(cache', cache),
           x \in DOMAIN cache', Distinct(active),
           Admits(Elements(rs.active), rs.removed, x, Elements(active), rs.removed \cup removed)
    PROVE  PrepareInv'
<1>1. ResourceForm /\ Admitting
  BY DEF PrepareInv
<1>2. PICK A : A = Elements(rs.active)
  OBVIOUS
<1>3. PICK B : B = Elements(active)
  OBVIOUS
<1>4. PICK c : c = cache'
  OBVIOUS
<1>5. InProgress(snap, block.messages, A, c, rs.removed) /\ Active(A, c)
  BY <1>1, <1>2, <1>4, KnowingMore DEF ResourceForm, Admitting
<1>6. Admits(A, rs.removed, x, B, rs.removed \cup removed)
  BY <1>2, <1>3
<1>7. Active(B, c)
  BY <1>4, <1>5, <1>6, AdmittedActive
<1>8. PICK t : t = block.messages \o <<c[x]>>
  OBVIOUS
<1>9. WithOne(block.messages, c[x], t)
  <2>1. IsSequence(block.messages)
    BY <1>5 DEF InProgress
  <2>2. PICK one : one = <<c[x]>>
    OBVIOUS
  <2>3. IsSequence(one) /\ Len(one) = 1 /\ one[1] = c[x] /\ 1 \in 1..Len(one)
    BY <2>2 DEF IsSequence, Range
  <2>4. Joins(t, block.messages, one)
    BY <1>8, <2>1, <2>2, <2>3, JoinedIs
  <2>5. DOMAIN block.messages = 1..Len(block.messages)
    BY <2>1, SequenceDomain
  <2> QED
    BY <2>3, <2>4, <2>5 DEF Joins, WithOne
<1>10. InProgress(snap, t, B, c, rs.removed \cup removed)
  BY <1>4, <1>5, <1>6, <1>7, <1>9, AdmittedInProgress
<1>11. ArtifactIDs(active) \subseteq rs.ids \cup {a.id}
  <2>1. \A b \in A : b.id \in rs.ids
    BY <1>1, <1>2 DEF ResourceForm, ArtifactIDs, Elements
  <2>2. \A j \in DOMAIN active : active[j] \in B
    BY <1>3 DEF Elements
  <2>3. \A b \in B : b.id \in rs.ids \cup {a.id}
    BY <1>6, <2>1 DEF Admits
  <2> QED
    BY <2>2, <2>3 DEF ArtifactIDs
<1> QED
  BY <1>3, <1>4, <1>7, <1>8, <1>10, <1>11, AdmittedInv

LEMMA ResolvedArtifact ==
    ASSUME NEW res \in Resolved, NEW k \in DOMAIN res.resources
    PROVE  IsArtifact(res.resources[k].artifact)
<1>1. "id" \in DOMAIN res.resources[k].artifact
  BY InputsAssumption
<1>2. res.resources[k].artifact.id \in UNION {{x.resources[j].artifact.id : j \in DOMAIN x.resources} : x \in Resolved}
  OBVIOUS
<1> QED
  BY <1>1, <1>2 DEF IsArtifact, ArtifactIdentities

LEMMA LeftOutInv ==
    ASSUME PrepareInv, pc = "resource", UNCHANGED <<pc, source, cursor, content>>,
           NEW a, IsArtifact(a), Admitted(a, rs.active, {}, << >>), CacheOK(cache'), Knows(cache', cache)
    PROVE  PrepareInv'
<1>1. ResourceForm /\ Admitting
  BY DEF PrepareInv
<1>2. PICK c : c = cache'
  OBVIOUS
<1>3. PICK A : A = Elements(rs.active)
  OBVIOUS
<1>4. InProgress(snap, block.messages, A, c, rs.removed) /\ Active(A, c)
  BY <1>1, <1>2, <1>3, KnowingMore DEF ResourceForm, Admitting
<1>5. block.messages \o << >> = block.messages
  <2>1. block.messages \in Seq(Range(block.messages))
    BY <1>4 DEF InProgress, IsSequence
  <2> DEFINE S == Range(block.messages)
  <2>2. block.messages \in Seq(S)
    BY <2>1
  <2> HIDE DEF S
  <2> QED
    BY <2>2, ConcatEmptySeq
<1>6. rs.removed \cup {} = rs.removed /\ ArtifactIDs(rs.active) \subseteq rs.ids \cup {a.id}
  BY <1>1 DEF ResourceForm
<1>7. Distinct(rs.active)
  BY <1>1 DEF ResourceForm
<1> QED
  BY <1>2, <1>3, <1>4, <1>5, <1>6, <1>7, AdmittedInv

LEMMA CommitInv ==
    ASSUME PrepareInv, pc = "resource", UNCHANGED <<pc, source, cursor, content>>,
           NEW a, IsArtifact(a), NEW m, CommitResource(a, m),
           ~LeftOut(a), AppendTargets(rs.active, a) = {},
           CacheOK(cache'), Knows(cache', cache), a \in DOMAIN cache', cache'[a] = m
    PROVE  PrepareInv'
<1>1. Distinct(rs.active) /\ ~RetainsExisting(rs.active, a)
  BY DEF PrepareInv, ResourceForm, LeftOut
<1>2. PICK after : after = UpsertArtifact(rs.active, a)
  OBVIOUS
<1>3. /\ Distinct(after)
      /\ Admits(Elements(rs.active), rs.removed, a, Elements(after),
                rs.removed \cup Replaced(rs.active, after, a))
  BY <1>1, <1>2, CommitAdmits
<1>4. Admitted(a, after, Replaced(rs.active, after, a), <<cache'[a]>>)
  BY <1>2 DEF CommitResource
<1> QED
  BY <1>3, <1>4, BroughtInv

LEMMA AppendInv ==
    ASSUME PrepareInv, pc = "resource", UNCHANGED <<pc, source, cursor, content>>,
           NEW a, IsArtifact(a), NEW k \in AppendTargets(rs.active, a),
           NEW x, x = ProjectedAppend(k, a), NEW m, AppendResource(a, k, x, m),
           CacheOK(cache'), Knows(cache', cache), x \in DOMAIN cache', cache'[x] = m
    PROVE  PrepareInv'
<1>1. Distinct(rs.active) /\ k \in DOMAIN rs.active /\ rs.active[k].id = a.id
  BY DEF PrepareInv, ResourceForm, AppendTargets
<1>2. IsArtifact(x) /\ x.id = a.id
  BY DEF ProjectedAppend, AppendArtifactPayload, IsArtifact
<1>3. PICK after : after = [rs.active EXCEPT ![k] = x]
  OBVIOUS
<1>4. Distinct(after) /\ Admits(Elements(rs.active), rs.removed, x, Elements(after), rs.removed \cup {a.id})
  BY <1>1, <1>2, <1>3, AppendAdmits
<1>5. Admitted(a, after, {a.id}, <<cache'[x]>>)
  BY <1>3 DEF AppendResource
<1> QED
  BY <1>2, <1>4, <1>5, BroughtInv

LEMMA AdmitInv ==
    ASSUME PrepareInv, AdmitResource
    PROVE  PrepareInv'
<1> DEFINE r == block.res.resources[block.next]
           a == r.artifact
           message == MaterializedMessage(a, Append(a.chunks, r.rep))
           seen == Remember(cache, a, message)
           targets == AppendTargets(rs.active, a)
           k == Min(targets)
           merged == ProjectedAppend(k, a)
<1>1. pc = "resource" /\ block.next \in DOMAIN block.res.resources /\ UNCHANGED <<source, cursor, content>>
  BY DEF AdmitResource
<1>2. ResourceForm /\ Admitting /\ CacheOK(cache)
  BY <1>1 DEF PrepareInv
<1>3. IsArtifact(a)
  BY <1>1, <1>2, ResolvedArtifact DEF Admitting
<1>4. \/ \E err : Fail(err)
      \/ /\ Registrable(r, message)
         /\ \/ Admitted(a, rs.active, {}, << >>) /\ cache' = seen /\ UNCHANGED pc
            \/ ~LeftOut(a) /\ targets = {} /\ CommitResource(a, message) /\ cache' = seen /\ UNCHANGED pc
            \/ /\ targets # {}
               /\ \E m \in MessagesOf(merged) :
                    Materialize(seen, merged, m) /\ AppendResource(a, k, merged, m) /\ UNCHANGED pc
  BY DEF AdmitResource, MaterializeFails
<1>5. CASE \E err : Fail(err)
  BY <1>5, FailedInv
<1>6. CASE Registrable(r, message)
  <2>1. a \in DOMAIN cache => cache[a] = message
    BY <1>6 DEF Registrable
  <2>2. PICK rep : rep = Append(a.chunks, r.rep)
    OBVIOUS
  <2>3. PICK m : m = message
    OBVIOUS
  <2>4. PICK b : b = a
    OBVIOUS
  <2>5. PICK d : d = seen
    OBVIOUS
  <2>6. /\ m = MaterializedMessage(b, rep) /\ (b \in DOMAIN cache => cache[b] = m)
        /\ d = Remember(cache, b, m) /\ IsArtifact(b)
    BY <1>3, <2>1, <2>2, <2>3, <2>4, <2>5
  <2>7. CacheOK(d) /\ Knows(d, cache) /\ b \in DOMAIN d /\ d[b] = m
    BY <1>2, <2>6, Remembered
  <2>8. CASE Admitted(a, rs.active, {}, << >>) /\ cache' = seen /\ UNCHANGED pc
    BY <1>1, <2>4, <2>5, <2>6, <2>7, <2>8, LeftOutInv
  <2>9. CASE ~LeftOut(a) /\ targets = {} /\ CommitResource(a, message) /\ cache' = seen /\ UNCHANGED pc
    <3>1. /\ ~LeftOut(b) /\ AppendTargets(rs.active, b) = {} /\ CommitResource(b, m)
          /\ cache' = d /\ UNCHANGED <<pc, source, cursor, content>>
      BY <1>1, <2>3, <2>4, <2>5, <2>9
    <3> HIDE DEF r, a, message, seen, targets, k, merged
    <3> QED
      BY <1>1, <2>6, <2>7, <3>1, CommitInv
  <2>10. CASE /\ targets # {}
              /\ \E m1 \in MessagesOf(merged) :
                    Materialize(seen, merged, m1) /\ AppendResource(a, k, merged, m1) /\ UNCHANGED pc
    <3>1. PICK x : x = merged
      OBVIOUS
    <3>2. PICK i : i = k
      OBVIOUS
    <3>3. PICK n \in MessagesOf(x) : Materialize(d, x, n) /\ AppendResource(b, i, x, n) /\ UNCHANGED pc
      BY <2>4, <2>5, <2>10, <3>1, <3>2
    <3>4. i \in AppendTargets(rs.active, b) /\ x = ProjectedAppend(i, b)
      <4>1. targets \subseteq Nat
        BY <1>2, SequenceDomain DEF ResourceForm, Distinct, AppendTargets
      <4>2. k \in targets
        <5> HIDE DEF targets
        <5> QED
          BY <2>10, <4>1, MinOf
      <4> QED
        BY <2>4, <3>1, <3>2, <4>2
    <3> HIDE DEF r, a, message, seen, targets, k, merged
    <3>5. CacheOK(cache') /\ Knows(cache', d) /\ x \in DOMAIN cache' /\ cache'[x] = n
      BY <2>7, <3>3, Materialized
    <3>6. Knows(cache', cache)
      BY <2>7, <3>5 DEF Knows
    <3>7. UNCHANGED <<pc, source, cursor, content>>
      BY <1>1, <3>3
    <3> QED
      BY <1>1, <2>6, <3>3, <3>4, <3>5, <3>6, <3>7, AppendInv
  <2> QED
    BY <1>4, <1>5, <2>8, <2>9, <2>10
<1> QED
  BY <1>4, <1>5, <1>6

LEMMA FinishBlockInv ==
    ASSUME HostIDsApart, PrepareInv, FinishBlock
    PROVE  PrepareInv'
<1>1. CASE \E err : Fail(err)
  BY <1>1, FailedInv
<1>2. CASE ~\E err : Fail(err)
  <2> DEFINE b == eng.blocks[cursor]
             bms == block.messages
             R == rs.removed
             A == Elements(rs.active)
             left == WithoutReplaced(snap)
             ns == RemoveReplacedContent(bms)
             es == [k \in DOMAIN ns |-> Named(ns[k], BlockPlace(Len(left[b.segment]), k))]
  <2>1. /\ pc = "resource" /\ pc' = "deferred" /\ eng' = eng /\ req' = req /\ cache' = cache
        /\ rs' = [rs EXCEPT !.removed = {}] /\ block' = NoBlock
        /\ snap' = [left EXCEPT ![b.segment] = ApplyMergePolicy(left[b.segment], es, b.merge)]
    BY <1>2 DEF FinishBlock, source
  <2>2. Admitting /\ ResourceForm /\ CacheOK(cache) /\ RequestForm(req) /\ eng \in Engines
    BY <2>1 DEF PrepareInv
  <2>3. InProgress(snap, bms, A, cache, R) /\ Active(A, cache)
    BY <2>2 DEF Admitting, ResourceForm
  <2>4. b.segment \in Segments /\ b.merge \in {"append", "replace", "dedup"}
    BY <2>2, InputsAssumption DEF Admitting
  <2>5. left = LeftOf(snap, R)
    BY DEF WithoutReplaced, LeftOf
  <2>6. TakenOnce(bms, StaysInBlock(bms, A, R), ns)
    <3>1. \A id : id \in ArtifactIDs(rs.active) <=> \E a \in A : id = a.id
      BY DEF ArtifactIDs, Elements
    <3>2. PICK S : S = StaysInBlock(bms, A, R)
      OBVIOUS
    <3>3. S = {k \in DOMAIN bms : bms[k].id \in rs.removed =>
                  /\ bms[k].id \in ArtifactIDs(rs.active)
                  /\ \A l \in k+1..Len(bms) : bms[l].id # bms[k].id}
      BY <3>1, <3>2 DEF StaysInBlock
    <3>4. PICK at : at = Kept([k \in DOMAIN bms |-> k], S)
      OBVIOUS
    <3>5. ns = [k \in DOMAIN at |-> bms[at[k]]]
      BY <3>3, <3>4 DEF RemoveReplacedContent
    <3>6. IsSequence(bms) /\ S \subseteq DOMAIN bms
      BY <2>3, <3>2 DEF InProgress, StaysInBlock
    <3> HIDE DEF ns, bms, A, R
    <3>7. TakenOnce(bms, S, ns)
      BY <3>4, <3>5, <3>6, PositionsTaken
    <3> QED
      BY <3>2, <3>7
  <2> HIDE DEF ns, bms, A, R, left, b
  <2>7. Cleaned(snap, ns, A, cache, R)
    BY <2>2, <2>3, <2>6, BlockCleaned
  <2>8. NamedAs(ns, es)
    <3>1. IsSequence(ns) /\ \A i \in DOMAIN ns : "id" \in DOMAIN ns[i]
      BY <2>7 DEF Cleaned
    <3>2. req.identity \in {"none", "event", "host"}
      BY <2>2 DEF RequestForm
    <3>3. ASSUME NEW i \in DOMAIN ns
          PROVE  IF ns[i].id \in ArtifactIdentities THEN es[i] = ns[i] ELSE es[i].id \notin ArtifactIdentities
      <4>1. PICK at : es[i] = Named(ns[i], at)
        OBVIOUS
      <4>2. CASE ns[i].id \in ArtifactIdentities
        <5>1. PICK a \in A : ns[i] = cache[a]
          BY <2>7, <4>2 DEF Cleaned
        <5>2. ns[i].id = a.id /\ [ns[i] EXCEPT !.id = a.id] = ns[i]
          BY <2>2, <2>3, <5>1, CachedMessage DEF Active
        <5>3. Named(ns[i], at) = [ns[i] EXCEPT !.id = ns[i].id]
          BY <3>1, <3>2, <4>2, NamedKept
        <5> QED
          BY <4>1, <4>2, <5>2, <5>3
      <4>3. CASE ns[i].id \notin ArtifactIdentities
        BY <3>1, <3>2, <4>1, <4>3, NamedApart
      <4> QED
        BY <4>2, <4>3
    <3>4. IsSequence(es)
      <4>1. PICK n \in Nat : n = Len(ns) /\ DOMAIN ns = 1..n
        BY <3>1, SequenceDomain
      <4>2. PICK fs : fs = es
        OBVIOUS
      <4>3. fs = [k \in 1..n |-> fs[k]]
        BY <4>1, <4>2
      <4>4. IsSequence(fs)
        BY <4>3, FunctionIsSequence
      <4> QED
        BY <4>2, <4>4
    <3>5. DOMAIN es = DOMAIN ns
      OBVIOUS
    <3> HIDE DEF es
    <3> QED
      BY <3>3, <3>4, <3>5 DEF NamedAs
  <2> HIDE DEF es
  <2>9. Shows(snap', A, cache)
    <3>1. HasSegments(snap) /\ Lone(snap) /\ ShowsOnly(snap, A, cache, R)
      BY <2>3 DEF InProgress
    <3>2. PICK t : t = snap'
      OBVIOUS
    <3>3. PICK seg \in Segments, merge \in {"append", "replace", "dedup"} : seg = b.segment /\ merge = b.merge
      BY <2>4
    <3>4. t = [left EXCEPT ![seg] = ApplyMergePolicy(left[seg], es, merge)]
      BY <2>1, <3>2, <3>3
    <3>5. Shows(t, A, cache)
      BY <2>2, <2>3, <2>5, <2>7, <2>8, <3>1, <3>4, BlockMerged
    <3> QED
      BY <3>2, <3>5
  <2>10. /\ rs' = [active |-> rs.active, ids |-> rs.ids, removed |-> {}]
         /\ block' = [res |-> block'.res, next |-> block'.next, messages |-> block'.messages]
    BY <2>1, <2>2 DEF ResourceForm, NoBlock
  <2>11. ResourceForm'
    BY <2>1, <2>2, <2>10 DEF ResourceForm
  <2>12. Prepared'
    BY <2>1, <2>9, <2>10 DEF Prepared, A
  <2> QED
    BY <2>1, <2>2, <2>11, <2>12 DEF PrepareInv
<1> QED
  BY <1>1, <1>2

LEMMA OtherStepsInv ==
    ASSUME PrepareInv, FinishPreparation \/ Interrupted \/ UNCHANGED prepareVars
    PROVE  PrepareInv'
<1>1. CASE \E err : Fail(err)
  BY <1>1, FailedInv
<1>2. CASE /\ UNCHANGED <<source, cursor, snap, cache, rs, block>>
           /\ pc' = pc \/ (pc = "deferred" /\ pc' = "prepared")
  <2>1. eng' = eng /\ req' = req /\ cursor' = cursor /\ snap' = snap /\ cache' = cache /\ rs' = rs /\ block' = block
    BY <1>2 DEF source
  <2>2. ResourceForm' = ResourceForm /\ AtRest' = AtRest /\ Untouched' = Untouched /\ Prepared' = Prepared
    BY <2>1 DEF ResourceForm, AtRest, Untouched, Prepared
  <2>3. (Selecting => Selecting') /\ (Admitting => Admitting')
    BY <2>1 DEF Selecting, Admitting, Untouched
  <2> QED
    BY <1>2, <2>1, <2>2, <2>3 DEF PrepareInv
<1>3. CASE FinishPreparation
  BY <1>1, <1>2, <1>3 DEF FinishPreparation
<1>4. CASE Interrupted
  BY <1>1, <1>4 DEF Interrupted
<1>5. CASE UNCHANGED prepareVars
  BY <1>2, <1>5 DEF prepareVars, source
<1> QED
  BY <1>3, <1>4, <1>5

LEMMA NextPrepareInv ==
    ASSUME HostIDsApart, PrepareInv, [PrepareNext]_prepareVars
    PROVE  PrepareInv'
<1>1. CASE PrepareNext
  BY <1>1, SourceInv, NormalizeInv, StartInv, SelectInv, AddInv, ResolveBlockInv, AdmitInv,
     FinishBlockInv, OtherStepsInv DEF PrepareNext, Finished
<1>2. CASE UNCHANGED prepareVars
  BY <1>2, OtherStepsInv
<1> QED
  BY <1>1, <1>2

\* PrepareInv holds throughout a preparation, if the host's identity policy
\* leaves the prefix of artifact messages to the library (prepareCompile).
THEOREM PrepareInvHolds ==
    ASSUME HostIDsApart PROVE PrepareSpec => []PrepareInv
<1>1. PrepareInit => PrepareInv
  BY InitPrepareInv
<1>2. PrepareInv /\ [PrepareNext]_prepareVars => PrepareInv'
  BY NextPrepareInv
<1> QED
  BY <1>1, <1>2, PTL DEF PrepareSpec

-----------------------------------------------------------------------------
(* What a preparation shows of the artifacts *)

\* Elements with identities of their own are as many as the identities.
LEMMA Counted ==
    ASSUME NEW q, IsSequence(q), \A i, j \in DOMAIN q : q[i].id = q[j].id => i = j
    PROVE  Cardinality(IDs(q)) = Len(q)
<1>1. PICK n \in Nat : n = Len(q) /\ DOMAIN q = 1..n
  BY SequenceDomain
<1> DEFINE f == [i \in 1..n |-> q[i].id]
<1>2. f \in Bijection(1..n, IDs(q))
  <2>1. \A i, j \in 1..n : f[i] = f[j] => i = j
    BY <1>1
  <2>2. f \in [1..n -> IDs(q)] /\ \A x \in IDs(q) : \E i \in 1..n : f[i] = x
    BY <1>1 DEF IDs
  <2> QED
    BY <2>1, <2>2 DEF Bijection, Injection, Surjection, IsInjective
<1>3. ExistsBijection(1..n, IDs(q))
  BY <1>2 DEF ExistsBijection
<1> QED
  BY <1>1, <1>3, FS_CountingElements

\* Two sequences, one behind the other, with no artifact's message twice.
LEMMA JoinedOneEach ==
    ASSUME NEW u, IsSequence(u), OneEach(u), NEW v, IsSequence(v), OneEach(v),
           IDs(u) \cap IDs(v) \cap ArtifactIdentities = {}, NEW w, w = u \o v
    PROVE  IsSequence(w) /\ OneEach(w) /\ IDs(w) = IDs(u) \cup IDs(v) /\ Elements(w) = Elements(u) \cup Elements(v)
<1>1. /\ IsSequence(w) /\ \A i \in DOMAIN w : InJoined(u, v, w, i)
      /\ Elements(w) = Elements(u) \cup Elements(v)
  BY Joined
<1>2. \A s : IDs(s) = {m.id : m \in Elements(s)}
  BY DEF IDs, Elements
<1>3. IDs(w) = IDs(u) \cup IDs(v)
  BY <1>1, <1>2
<1>4. OneEach(w)
  <2> SUFFICES ASSUME NEW i \in DOMAIN w, NEW j \in DOMAIN w, w[i].id = w[j].id, w[i].id \in ArtifactIdentities
               PROVE  i = j
    BY DEF OneEach
  <2>1. ASSUME NEW k \in DOMAIN u, NEW l \in DOMAIN v, u[k].id = v[l].id, u[k].id \in ArtifactIdentities
        PROVE  FALSE
    BY <2>1 DEF IDs
  <2>2. InJoined(u, v, w, i) /\ InJoined(u, v, w, j)
    BY <1>1
  <2> QED
    BY <2>1, <2>2 DEF InJoined, OneEach
<1> QED
  BY <1>1, <1>3, <1>4

LEMMA AllMessages ==
    ASSUME NEW s, HasSegments(s), Lone(s), NEW all, all = SnapshotMessages(s)
    PROVE  IsSequence(all) /\ OneEach(all) /\ \A m : m \in Elements(all) <=> IsIn(s, m)
<1> DEFINE a == s["system"]
           b == s["history"]
           c == s["memory"]
           d == s["tools"]
<1>1. /\ IsSequence(a) /\ IsSequence(b) /\ IsSequence(c) /\ IsSequence(d)
      /\ OneEach(a) /\ OneEach(b) /\ OneEach(c) /\ OneEach(d)
      /\ IDs(a) \cap IDs(b) \cap ArtifactIdentities = {} /\ IDs(a) \cap IDs(c) \cap ArtifactIdentities = {}
      /\ IDs(a) \cap IDs(d) \cap ArtifactIdentities = {} /\ IDs(b) \cap IDs(c) \cap ArtifactIdentities = {}
      /\ IDs(b) \cap IDs(d) \cap ArtifactIdentities = {} /\ IDs(c) \cap IDs(d) \cap ArtifactIdentities = {}
  BY DEF HasSegments, Lone, Segments
<1>2. \A m : IsIn(s, m) <=> m \in Elements(a) \cup Elements(b) \cup Elements(c) \cup Elements(d)
  BY DEF IsIn, Segments
<1>3. all = ((a \o b) \o c) \o d
  BY DEF SnapshotMessages
<1> HIDE DEF a, b, c, d
<1>4. PICK ab : ab = a \o b
  OBVIOUS
<1>5. IsSequence(ab) /\ OneEach(ab) /\ IDs(ab) = IDs(a) \cup IDs(b) /\ Elements(ab) = Elements(a) \cup Elements(b)
  BY <1>1, <1>4, JoinedOneEach
<1>6. IDs(ab) \cap IDs(c) \cap ArtifactIdentities = {}
  BY <1>1, <1>5
<1>7. PICK abc : abc = ab \o c
  OBVIOUS
<1>8. IsSequence(abc) /\ OneEach(abc) /\ IDs(abc) = IDs(ab) \cup IDs(c) /\ Elements(abc) = Elements(ab) \cup Elements(c)
  <2>1. IsSequence(c) /\ OneEach(c)
    BY <1>1
  <2>2. IsSequence(ab) /\ OneEach(ab)
    BY <1>5
  <2> QED
    BY ONLY <1>6, <1>7, <2>1, <2>2, JoinedOneEach
<1>9. IDs(abc) \cap IDs(d) \cap ArtifactIdentities = {}
  BY <1>1, <1>5, <1>8
<1>10. all = abc \o d
  BY <1>3, <1>4, <1>7
<1>11. IsSequence(all) /\ OneEach(all) /\ Elements(all) = Elements(abc) \cup Elements(d)
  <2>1. IsSequence(abc) /\ OneEach(abc) /\ IsSequence(d) /\ OneEach(d)
    BY <1>1, <1>8
  <2> QED
    BY ONLY <1>9, <1>10, <2>1, JoinedOneEach
<1> QED
  BY <1>2, <1>5, <1>8, <1>11

LEMMA ShownAre ==
    ASSUME PrepareInv
    PROVE  ArtifactMessagesMatchActive
<1> SUFFICES ASSUME pc \in {"deferred", "prepared"},
                    NEW all, all = SnapshotMessages(snap),
                    NEW shown, shown = Kept(all, {m \in Elements(all) : m.id \in rs.ids})
             PROVE  /\ Elements(shown) = {cache[rs.active[k]] : k \in DOMAIN rs.active}
                    /\ Len(shown) = Len(rs.active)
  BY DEF ArtifactMessagesMatchActive
<1> DEFINE A == Elements(rs.active)
           S == {m \in Elements(all) : m.id \in rs.ids}
<1>1. Prepared /\ ResourceForm /\ CacheOK(cache)
  BY DEF PrepareInv
<1>2. Shows(snap, A, cache) /\ Active(A, cache) /\ Distinct(rs.active)
  BY <1>1 DEF Prepared, ResourceForm
<1>3. \A a \in A : a \in DOMAIN cache /\ cache[a].id = a.id /\ a.id \in ArtifactIdentities /\ a.id \in rs.ids
  <2>1. \A a \in A : a \in DOMAIN cache /\ cache[a].id = a.id /\ a.id \in ArtifactIdentities
    BY <1>1, <1>2, CachedMessage DEF Active, IsArtifact
  <2>2. \A a \in A : a.id \in rs.ids
    BY <1>1 DEF ResourceForm, ArtifactIDs, Elements
  <2> QED
    BY <2>1, <2>2
<1>4. rs.ids \subseteq ArtifactIdentities
  BY <1>1 DEF ResourceForm
<1>5. IsSequence(all) /\ OneEach(all) /\ \A m : m \in Elements(all) <=> IsIn(snap, m)
  BY <1>2, AllMessages DEF Shows
<1>6. S \subseteq Elements(all)
  OBVIOUS
<1>7. shown = Kept(all, S)
  OBVIOUS
<1>8. {cache[rs.active[k]] : k \in DOMAIN rs.active} = {cache[a] : a \in A}
  BY DEF Elements
<1>9. S = {cache[a] : a \in A}
  <2>1. ASSUME NEW m \in S
        PROVE  \E a \in A : m = cache[a]
    <3>1. PICK g \in Segments : m \in Elements(snap[g])
      BY <1>5 DEF IsIn
    <3> QED
      BY <1>2, <1>4, <3>1 DEF Shows, ShowsOnly
  <2>2. \A a \in A : cache[a] \in S
    BY <1>2, <1>3, <1>5 DEF Shows
  <2> QED
    BY <2>1, <2>2
<1> HIDE DEF S, A
<1>10. IsSequence(shown) /\ Elements(shown) = S
  BY <1>5, <1>6, <1>7, KeptElements
<1>11. ASSUME NEW i \in DOMAIN shown, NEW j \in DOMAIN shown, shown[i].id = shown[j].id
       PROVE  i = j
  <2>1. OnceIn(all, shown, i, j)
    BY <1>5, <1>7, KeptOnce
  <2>2. PICK k \in DOMAIN all, l \in DOMAIN all : all[k] = shown[i] /\ all[l] = shown[j] /\ (k = l => i = j)
    BY <2>1 DEF OnceIn
  <2>3. shown[i] \in S
    BY <1>10 DEF Elements
  <2>4. shown[i].id \in ArtifactIdentities
    BY <1>3, <1>9, <2>3
  <2> QED
    BY <1>5, <1>11, <2>2, <2>4 DEF OneEach
<1>12. Cardinality(IDs(shown)) = Len(shown)
  BY <1>10, <1>11, Counted
<1>13. Cardinality(IDs(rs.active)) = Len(rs.active)
  BY <1>2, Counted DEF Distinct
<1>14. IDs(shown) = IDs(rs.active)
  <2>1. \A s : IDs(s) = {m.id : m \in Elements(s)}
    BY DEF IDs, Elements
  <2>2. IDs(shown) = {m.id : m \in S} /\ IDs(rs.active) = {a.id : a \in A}
    BY <1>10, <2>1 DEF A
  <2>3. {m.id : m \in S} = {a.id : a \in A}
    BY <1>3, <1>9
  <2> QED
    BY <2>2, <2>3
<1> QED
  BY <1>8, <1>9, <1>10, <1>12, <1>13, <1>14

\* The artifact messages of a snapshot are those of the active artifacts, each
\* once, however resources replace, extend or refuse one another
\* (resource_compile.go), for every set of engines, requests and resolutions.
THEOREM ArtifactsShownOnce ==
    ASSUME HostIDsApart PROVE PrepareSpec => []ArtifactMessagesMatchActive
<1>1. PrepareInv => ArtifactMessagesMatchActive
  BY ShownAre
<1> QED
  BY <1>1, PrepareInvHolds, PTL

-----------------------------------------------------------------------------
(* Configuration and callbacks *)

MaterializesIfValid ==
    (\E k \in DOMAIN calls : calls[k].what = "materialize") => eng.mat = "valid"

LoadOnly == calls = << >> \/ calls = <<[what |-> "load"]>>

ConfigInv ==
    /\ eng \in Engines /\ IsSequence(calls) /\ MaterializesIfValid
    /\ pc # "failed" => answer = "none"
    /\ pc \in {"configure", "load"} => calls = << >>
    /\ pc \in {"load", "recheck"} => eng.config /\ eng.mat # "broken" /\ LoadOnly
    /\ pc \notin {"configure", "load", "recheck", "failed"} =>
         eng.mat # "broken" /\ (eng.mat = "none" => req.arts = << >>)
    /\ ConfigurationBeforeCallbacks

LEMMA CallAdded ==
    ASSUME ConfigInv, NEW c, calls' = Append(calls, c), c.what = "materialize" => eng.mat = "valid", eng' = eng
    PROVE  IsSequence(calls') /\ MaterializesIfValid'
<1>1. IsSequence(calls) /\ MaterializesIfValid
  BY DEF ConfigInv
<1>2. WithOne(calls, c, calls')
  BY <1>1, OneAppended
<1>3. IsSequence(calls') /\ DOMAIN calls' = 1..Len(calls) + 1 /\ DOMAIN calls = 1..Len(calls) /\ Len(calls) \in Nat
  BY <1>1, <1>2, SequenceDomain DEF WithOne
<1>4. \A k \in 1..Len(calls) + 1 : k \in 1..Len(calls) \/ k = Len(calls) + 1
  BY <1>3
<1>5. \A k \in DOMAIN calls' : calls'[k].what = "materialize" => eng.mat = "valid"
  BY <1>1, <1>2, <1>3, <1>4 DEF WithOne, MaterializesIfValid
<1> QED
  BY <1>3, <1>5 DEF MaterializesIfValid

\* Steps behind the checks of the configuration.
LEMMA LaterConfig ==
    ASSUME ConfigInv, pc \notin {"configure", "load", "recheck", "failed"}, eng' = eng,
           pc' \notin {"configure", "load", "recheck"}, req.arts = << >> => req'.arts = << >>,
           IsSequence(calls'), MaterializesIfValid',
           IF pc' = "failed" THEN answer' # "configuration" ELSE answer' = answer
    PROVE  ConfigInv'
<1>1. answer' # "configuration"
  BY DEF ConfigInv
<1>2. ConfigurationBeforeCallbacks'
  BY <1>1 DEF ConfigurationBeforeCallbacks, MaterializesIfValid
<1> QED
  BY <1>2 DEF ConfigInv

LEMMA CheckConfig ==
    ASSUME ConfigInv, CheckConfiguration \/ LoadSnapshot \/ Recheck
    PROVE  ConfigInv'
<1>1. CASE CheckConfiguration
  <2>1. calls = << >> /\ calls' = << >> /\ eng' = eng /\ answer = "none"
    BY <1>1 DEF CheckConfiguration, ConfigInv, Fail, source
  <2>2. MaterializesIfValid' /\ ConfigurationBeforeCallbacks' /\ IsSequence(calls') /\ LoadOnly'
    BY <2>1 DEF MaterializesIfValid, ConfigurationBeforeCallbacks, IsSequence, LoadOnly
  <2>3. CASE pc' = "failed"
    BY <2>1, <2>2, <2>3 DEF ConfigInv
  <2>4. CASE pc' # "failed"
    <3>1. pc' \in {"load", "recheck"} /\ answer' = answer /\ ConfigurationValid(eng, req.arts)
      BY <1>1, <2>4 DEF CheckConfiguration, Fail
    <3> QED
      BY <2>1, <2>2, <3>1 DEF ConfigInv, ConfigurationValid
  <2> QED
    BY <2>3, <2>4
<1>2. CASE LoadSnapshot
  <2>1. calls = << >> /\ calls' = <<[what |-> "load"]>> /\ eng' = eng /\ answer = "none"
    BY <1>2 DEF LoadSnapshot, ConfigInv, Called, Fail, source
  <2>2. IsSequence(calls') /\ MaterializesIfValid'
    <3>1. PICK c : c = [what |-> "load"]
      OBVIOUS
    <3>2. calls' = Append(calls, c) /\ c.what # "materialize"
      BY <2>1, <3>1
    <3> QED
      BY <2>1, <3>2, CallAdded
  <2>3. LoadOnly' /\ eng.config /\ eng.mat # "broken"
    BY <1>2, <2>1 DEF LoadOnly, LoadSnapshot, ConfigInv
  <2>4. (pc' = "failed" /\ answer' = "store") \/ (pc' = "recheck" /\ answer' = "none")
    BY <1>2, <2>1 DEF LoadSnapshot, Fail
  <2>5. ConfigurationBeforeCallbacks'
    BY <2>2, <2>4 DEF ConfigurationBeforeCallbacks, MaterializesIfValid
  <2> QED
    BY <2>1, <2>2, <2>3, <2>4, <2>5 DEF ConfigInv
<1>3. CASE Recheck
  <2>1. /\ calls' = calls /\ eng' = eng /\ req' = req /\ answer = "none" /\ IsSequence(calls)
        /\ LoadOnly /\ eng.config /\ eng.mat # "broken" /\ MaterializesIfValid
    BY <1>3 DEF Recheck, ConfigInv, Fail, source
  <2>2. IsSequence(calls') /\ MaterializesIfValid'
    BY <2>1 DEF MaterializesIfValid
  <2>3. CASE ConfigurationValid(eng, req.arts)
    <3>1. pc' = "normalize" /\ answer' = "none"
      BY <1>3, <2>1, <2>3 DEF Recheck
    <3>2. ConfigurationBeforeCallbacks'
      BY <2>2, <3>1 DEF ConfigurationBeforeCallbacks, MaterializesIfValid
    <3> QED
      BY <2>1, <2>2, <2>3, <3>1, <3>2 DEF ConfigInv, ConfigurationValid
  <2>4. CASE ~ConfigurationValid(eng, req.arts)
    <3>1. pc' = "failed"
      BY <1>3, <2>4 DEF Recheck, Fail
    <3>2. req.arts # << >> /\ eng.mat = "none"
      BY <2>1, <2>4 DEF ConfigurationValid
    <3>3. ConfigurationBeforeCallbacks'
      BY <2>1, <2>2, <3>2 DEF ConfigurationBeforeCallbacks, MaterializesIfValid, LoadOnly
    <3> QED
      BY <2>1, <2>2, <3>1, <3>3 DEF ConfigInv
  <2> QED
    BY <2>3, <2>4
<1> QED
  BY <1>1, <1>2, <1>3

\* What the later steps call.
LEMMA LaterCalls ==
    ASSUME ConfigInv, Normalize \/ StartPreparation \/ SelectArtifact \/ AddArtifactMessages
                      \/ ResolveBlock \/ AdmitResource \/ FinishBlock \/ FinishPreparation
    PROVE  IsSequence(calls') /\ MaterializesIfValid'
<1>0. eng \in Engines /\ IsSequence(calls) /\ MaterializesIfValid
  BY DEF ConfigInv
<1>1. eng' = eng
  BY DEF Normalize, StartPreparation, SelectArtifact, AddArtifactMessages, ResolveBlock, AdmitResource,
     FinishBlock, FinishPreparation, Fail, MaterializeFails, source
<1>2. CASE UNCHANGED calls
  BY <1>0, <1>1, <1>2 DEF MaterializesIfValid
<1>3. CASE \E a : AskHost(a) /\ eng.mat = "valid"
  <2>1. PICK a : calls' = Append(calls, [what |-> "materialize", artifact |-> a])
    BY <1>3 DEF AskHost
  <2> QED
    BY <1>1, <1>3, <2>1, CallAdded
<1>4. CASE Called("resolve")
  <2>1. PICK c : c = [what |-> "resolve"]
    OBVIOUS
  <2>2. calls' = Append(calls, c) /\ c.what # "materialize"
    BY <1>4, <2>1 DEF Called
  <2> QED
    BY <1>1, <2>2, CallAdded
<1>5. CASE Normalize \/ StartPreparation \/ AddArtifactMessages \/ FinishBlock \/ FinishPreparation
  BY <1>2, <1>5 DEF Normalize, StartPreparation, AddArtifactMessages, FinishBlock, FinishPreparation
<1>6. CASE ResolveBlock
  BY <1>4, <1>6 DEF ResolveBlock
<1>7. CASE SelectArtifact
  <2>1. pc = "select" /\ cursor \in DOMAIN req.arts
    BY <1>7 DEF SelectArtifact
  <2>2. req.arts # << >>
    BY <2>1
  <2>3. eng.mat \in {"none", "valid", "broken"}
    BY <1>0, InputsAssumption
  <2>4. eng.mat = "valid"
    BY <2>1, <2>2, <2>3 DEF ConfigInv
  <2>5. UNCHANGED calls \/ \E a : AskHost(a)
    BY <1>7 DEF SelectArtifact, Materialize, MaterializeFails
  <2> QED
    BY <1>2, <1>3, <2>4, <2>5
<1>8. CASE AdmitResource
  <2>1. UNCHANGED calls \/ (eng.mat = "valid" /\ \E a : AskHost(a))
    BY <1>8 DEF AdmitResource, Materialize, MaterializeFails, Registrable
  <2> QED
    BY <1>2, <1>3, <2>1
<1> QED
  BY <1>5, <1>6, <1>7, <1>8

LEMMA NextConfig ==
    ASSUME ConfigInv, [PrepareNext]_prepareVars
    PROVE  ConfigInv'
<1>1. CASE UNCHANGED prepareVars
  BY <1>1 DEF prepareVars, ConfigInv, MaterializesIfValid, LoadOnly, ConfigurationBeforeCallbacks
<1>2. CASE CheckConfiguration \/ LoadSnapshot \/ Recheck
  BY <1>2, CheckConfig
<1>3. CASE Interrupted
  <2>1. eng' = eng /\ pc' = "failed" /\ answer' = "canceled" /\ calls' = calls
    BY <1>3 DEF Interrupted, Fail, source
  <2>2. MaterializesIfValid' /\ IsSequence(calls')
    BY <2>1 DEF ConfigInv, MaterializesIfValid
  <2>3. ConfigurationBeforeCallbacks'
    BY <2>1, <2>2 DEF ConfigurationBeforeCallbacks, MaterializesIfValid
  <2> QED
    BY <2>1, <2>2, <2>3 DEF ConfigInv
<1>4. CASE Normalize
  <2>1. req.arts = << >> => req'.arts = << >>
    <3>1. CASE UNCHANGED req
      BY <3>1
    <3>2. CASE req' = [req EXCEPT !.arts = MergeArtifacts(@)]
      <4>1. IsSequence(<< >>)
        BY DEF IsSequence
      <4>2. PICK q : q = << >>
        OBVIOUS
      <4>3. MergeArtifacts(q) = << >>
        BY <4>1, <4>2, MergedDistinct
      <4>4. PICK as : as = MergeArtifacts(req.arts)
        OBVIOUS
      <4>5. req' = [req EXCEPT !.arts = as] /\ (req.arts = << >> => as = << >>)
        BY <3>2, <4>2, <4>3, <4>4
      <4> QED
        BY <4>5
    <3> QED
      BY <1>4, <3>1, <3>2 DEF Normalize, Fail, source
  <2>2. /\ pc = "normalize" /\ eng' = eng /\ pc' \in {"opaque", "failed"}
        /\ IF pc' = "failed" THEN answer' # "configuration" ELSE answer' = answer
    BY <1>4 DEF Normalize, Fail, source
  <2> QED
    BY <1>4, <2>1, <2>2, LaterCalls, LaterConfig
<1>5. CASE StartPreparation \/ SelectArtifact \/ AddArtifactMessages \/ ResolveBlock \/ AdmitResource
           \/ FinishBlock \/ FinishPreparation
  <2>1. pc \in {"opaque", "select", "deferred", "resource"} /\ eng' = eng /\ req' = req
    BY <1>5 DEF StartPreparation, SelectArtifact, AddArtifactMessages, ResolveBlock, AdmitResource,
       FinishBlock, FinishPreparation, Fail, MaterializeFails, source
  <2>2. /\ pc' \in {"select", "deferred", "resource", "prepared", "failed"}
        /\ IF pc' = "failed" THEN answer' # "configuration" ELSE answer' = answer
    BY <1>5 DEF StartPreparation, SelectArtifact, AddArtifactMessages, ResolveBlock, AdmitResource,
       FinishBlock, FinishPreparation, Fail, MaterializeFails
  <2> QED
    BY <1>5, <2>1, <2>2, LaterCalls, LaterConfig
<1> QED
  BY <1>1, <1>2, <1>3, <1>4, <1>5 DEF PrepareNext, Finished

\* A configuration that is wrong is reported before any host code runs, and
\* without a policy nothing is materialised (Compile and compileRequest).
THEOREM ConfigurationFirst == PrepareSpec => []ConfigurationBeforeCallbacks
<1>1. PrepareInit => ConfigInv
  BY DEF PrepareInit, ConfigInv, MaterializesIfValid, LoadOnly, ConfigurationBeforeCallbacks, IsSequence
<1>2. ConfigInv /\ [PrepareNext]_prepareVars => ConfigInv'
  BY NextConfig
<1>3. ConfigInv => ConfigurationBeforeCallbacks
  BY DEF ConfigInv
<1> QED
  BY <1>1, <1>2, <1>3, PTL DEF PrepareSpec

-----------------------------------------------------------------------------
(* Identities that are written back *)

\* Where the first n elements go and the others stay, the others are what is kept.
ShortTo(t, w, n, m) == IsSequence(t) /\ Len(t) = m /\ \A j \in 1..m : t[j] = w[n + j]
SplitBy(w, n, m, S) ==
    /\ IsSequence(w) /\ Len(w) = n + m
    /\ \A k \in 1..n : w[k] \notin S
    /\ \A j \in 1..m : w[n + j] \in S

LEMMA KeptTail ==
    ASSUME NEW w, NEW n \in Nat, NEW m \in Nat, NEW S, SplitBy(w, n, m, S),
           NEW t, t = Kept(w, S)
    PROVE  ShortTo(t, w, n, m)
<1> USE DEF ShortTo, SplitBy
<1> DEFINE P == {k \in DOMAIN w : w[k] \in S}
<1>1. DOMAIN w = 1..n + m
  BY SequenceDomain
<1>2. \A k \in 1..n + m : k \in 1..n \/ (k - n \in 1..m /\ k = n + (k - n))
  OBVIOUS
<1>3. \A j \in 1..m : n + j \in 1..n + m
  OBVIOUS
<1>4. \A k \in P : k - n \in 1..m /\ k = n + (k - n) /\ k \in Nat
  BY <1>1, <1>2
<1>5. \A j \in 1..m : n + j \in P
  BY <1>1, <1>3
<1>6. PICK c : PlacedAt(w, P, t, c)
  BY KeptPlaced
<1> HIDE DEF P
<1>7. IsSequence(t) /\ Len(t) \in Nat
  BY <1>6, SequenceDomain DEF PlacedAt
<1>8. \A k \in P : c[k] \in 1..Len(t) /\ t[c[k]] = w[k]
  BY <1>6 DEF PlacedAt
<1>9. \A l \in 1..Len(t) : \E k \in P : c[k] = l
  BY <1>6 DEF PlacedAt
<1>10. CASE m = 0
  <2>1. P = {}
    BY <1>4, <1>10
  <2>2. Len(t) = 0
    <3>1. Len(t) > 0 => 1 \in 1..Len(t)
      BY <1>7
    <3> QED
      BY <1>7, <1>9, <2>1, <3>1
  <2> QED
    BY <1>7, <1>10, <2>2
<1>11. CASE m # 0
  <2> DEFINE i == n + 1
             len == m - 1
  <2>1. i \in Nat /\ len \in Nat /\ \A k \in i..i + len : k - n \in 1..m /\ k = n + (k - n)
    BY <1>11
  <2>2. i..i + len \subseteq P
    BY <1>5, <2>1
  <2>3. i \in P /\ \A j \in 1..m : j - 1 \in 0..len /\ n + j = i + (j - 1)
    BY <1>5, <1>11
  <2>4. \A k \in P : k = i \/ i < k
    BY <1>4
  <2> HIDE DEF i, len
  <2>5. P \in SUBSET Nat
    BY <1>4
  <2>6. InARow(c, i, len)
    BY <1>6, <2>1, <2>2, <2>5, StretchStays
  <2>7. c[i] = 1
    <3>1. c[i] \in 1..Len(t)
      BY <1>8, <2>3
    <3>2. 1 \in 1..Len(t) /\ c[i] \in Nat /\ ~(c[i] < 1)
      BY <1>7, <3>1
    <3>3. PICK k \in P : c[k] = 1
      BY <1>9, <3>2
    <3>4. i < k => c[i] < c[k]
      BY <1>6, <2>3 DEF PlacedAt
    <3> QED
      BY <2>4, <3>2, <3>3, <3>4
  <2>8. ASSUME NEW j \in 1..m
        PROVE  c[n + j] = j
    <3>1. c[i + (j - 1)] = c[i] + (j - 1)
      BY <2>3, <2>6 DEF InARow
    <3>2. 1 + (j - 1) = j
      OBVIOUS
    <3> QED
      BY <2>3, <2>7, <3>1, <3>2
  <2>9. \A j \in 1..m : j \in 1..Len(t) /\ t[j] = w[n + j]
    BY <1>5, <1>8, <2>8
  <2>10. \A l \in 1..Len(t) : l \in 1..m
    <3> SUFFICES ASSUME NEW l \in 1..Len(t) PROVE l \in 1..m
      OBVIOUS
    <3>1. PICK k \in P : c[k] = l
      BY <1>9
    <3>2. PICK j \in 1..m : k = n + j
      BY <1>4
    <3> QED
      BY <2>8, <3>1, <3>2
  <2>11. Len(t) = m
    <3>1. m \in 1..m
      BY <1>11
    <3>2. Len(t) \in 1..Len(t)
      BY <1>7, <2>9, <3>1
    <3> QED
      BY <1>7, <2>9, <2>10, <3>1, <3>2
  <2> QED
    BY <1>7, <2>9, <2>11
<1> QED
  BY <1>10, <1>11

\* A front of n elements, among F; then those of e and those of f.
Composed(w, n, F, e, f) ==
    /\ IsSequence(w) /\ Len(w) = n + Len(e) + Len(f)
    /\ \A i \in 1..n : w[i] \in F
    /\ \A j \in DOMAIN e : w[n + j] = e[j]
    /\ \A l \in DOMAIN f : w[n + Len(e) + l] = f[l]

LEMMA ComposedIs ==
    ASSUME NEW a, IsSequence(a), NEW b, IsSequence(b), NEW c, IsSequence(c), NEW d, IsSequence(d),
           NEW e, IsSequence(e), NEW f, IsSequence(f), NEW w, w = a \o b \o c \o d \o e \o f
    PROVE  \E n \in Nat : Composed(w, n, Elements(a) \cup Elements(b) \cup Elements(c) \cup Elements(d), e, f)
<1>1. PICK ab : ab = a \o b
  OBVIOUS
<1>2. IsSequence(ab) /\ Elements(ab) = Elements(a) \cup Elements(b)
  BY <1>1, Joined
<1>3. PICK abc : abc = ab \o c
  OBVIOUS
<1>4. IsSequence(abc) /\ Elements(abc) = Elements(ab) \cup Elements(c)
  BY ONLY <1>2, <1>3, IsSequence(c), Joined
<1>5. PICK u : u = abc \o d
  OBVIOUS
<1>6. IsSequence(u) /\ Elements(u) = Elements(abc) \cup Elements(d)
  BY ONLY <1>4, <1>5, IsSequence(d), Joined
<1>7. PICK v : v = u \o e
  OBVIOUS
<1>8. Joins(v, u, e)
  BY <1>6, <1>7, JoinedIs
<1>9. w = v \o f
  BY <1>1, <1>3, <1>5, <1>7
<1>10. Joins(w, v, f)
  <2>1. IsSequence(v)
    BY <1>8 DEF Joins
  <2> QED
    BY ONLY <1>9, <2>1, IsSequence(f), JoinedIs
<1>11. PICK n \in Nat : n = Len(u) /\ DOMAIN u = 1..n
  BY <1>6, SequenceDomain
<1>12. PICK m \in Nat : m = Len(e) /\ DOMAIN e = 1..m
  BY SequenceDomain
<1>13. PICK k \in Nat : k = Len(f) /\ DOMAIN f = 1..k
  BY SequenceDomain
<1>14. Len(v) = n + m /\ Len(w) = n + m + k /\ IsSequence(w)
  BY <1>8, <1>10, <1>11, <1>12, <1>13 DEF Joins
<1>15. (\A i \in 1..n : i \in 1..n + m) /\ \A j \in 1..m : n + j \in 1..n + m
  OBVIOUS
<1>16. \A i \in 1..n : w[i] = u[i] /\ u[i] \in Elements(u)
  BY <1>8, <1>10, <1>11, <1>14, <1>15 DEF Joins, Elements
<1>17. \A j \in DOMAIN e : w[n + j] = e[j]
  BY <1>8, <1>10, <1>11, <1>12, <1>14, <1>15 DEF Joins
<1>18. \A l \in DOMAIN f : w[n + m + l] = f[l]
  BY <1>10, <1>13, <1>14 DEF Joins
<1> DEFINE F == Elements(a) \cup Elements(b) \cup Elements(c) \cup Elements(d)
<1>19. Elements(u) = F
  BY <1>2, <1>4, <1>6
<1> HIDE DEF F
<1>20. Composed(w, n, F, e, f)
  BY <1>12, <1>13, <1>14, <1>16, <1>17, <1>18, <1>19 DEF Composed
<1> QED
  BY <1>20 DEF F

\* What the places of a request are.
PendingPlace(h, k) == <<req.pending[k], [At("history", h + k, k) EXCEPT !.pending = TRUE]>>
CurrentPlace(n) == <<req.current.raw, [At("history", n, 1) EXCEPT !.current = TRUE]>>
InSegment(p) == \E g \in Segments : \E k \in DOMAIN Requested(g) : p = <<Requested(g)[k], At(g, k, k)>>

PlacesFrom(n) ==
    LET h == Len(Requested("history"))
        m == Len(req.pending)
    IN  /\ IsSequence(Places)
        /\ Len(Places) = n + m + (IF req.current = None THEN 0 ELSE 1)
        /\ \A i \in 1..n : InSegment(Places[i])
        /\ \A j \in 1..m : Places[n + j] = PendingPlace(h, j)
        /\ req.current # None => Places[n + m + 1] = CurrentPlace(h + m + 1)

LEMMA RequestedIsSequence ==
    ASSUME RequestForm(req), NEW g \in Segments
    PROVE  IsSequence(Requested(g))
<1>1. CASE req.segs[g] = None
  BY <1>1 DEF Requested, IsSequence
<1>2. CASE req.segs[g] # None
  BY <1>2 DEF Requested, RequestForm, HostMessages
<1> QED
  BY <1>1, <1>2

\* A sequence that has an entry for every one of another.
LEMMA MappedIsSequence ==
    ASSUME NEW s, IsSequence(s), NEW f, f = [k \in DOMAIN s |-> f[k]]
    PROVE  IsSequence(f) /\ Len(f) = Len(s) /\ DOMAIN f = DOMAIN s
<1>1. PICK n \in Nat : n = Len(s) /\ DOMAIN s = 1..n
  BY SequenceDomain
<1>2. IsSequence(f)
  BY <1>1, FunctionIsSequence
<1>3. DOMAIN f = 1..n
  BY <1>1
<1>4. Len(f) \in Nat /\ DOMAIN f = 1..Len(f)
  BY <1>2, SequenceDomain
<1>5. Len(f) = n
  <2>1. \A x \in Nat : 1..x = 1..n => x = n
    <3> SUFFICES ASSUME NEW x \in Nat, 1..x = 1..n PROVE x = n
      OBVIOUS
    <3>1. x \in 1..x \/ x = 0
      OBVIOUS
    <3>2. n \in 1..n \/ n = 0
      OBVIOUS
    <3> QED
      BY <3>1, <3>2
  <2> QED
    BY <1>3, <1>4, <2>1
<1> QED
  BY <1>1, <1>2, <1>3, <1>5

LEMMA PlacesAre ==
    ASSUME RequestForm(req)
    PROVE  \E n \in Nat : PlacesFrom(n)
<1> DEFINE h == Len(Requested("history"))
           placed(g) == [k \in DOMAIN Requested(g) |-> <<Requested(g)[k], At(g, k, k)>>]
           e == [k \in DOMAIN req.pending |-> PendingPlace(h, k)]
           m == Len(req.pending)
           f == IF req.current = None THEN << >> ELSE << CurrentPlace(h + m + 1) >>
           F == Elements(placed("system")) \cup Elements(placed("history"))
                \cup Elements(placed("memory")) \cup Elements(placed("tools"))
<1>1. Places = placed("system") \o placed("history") \o placed("memory") \o placed("tools") \o e \o f
  BY DEF Places, PlacesAfter, PendingPlace, CurrentPlace
<1>2. \A g \in Segments : IsSequence(placed(g))
  <2> SUFFICES ASSUME NEW g \in Segments PROVE IsSequence(placed(g))
    OBVIOUS
  <2>1. IsSequence(Requested(g))
    BY RequestedIsSequence
  <2>2. placed(g) = [k \in DOMAIN Requested(g) |-> placed(g)[k]]
    OBVIOUS
  <2> HIDE DEF placed
  <2> QED
    BY <2>1, <2>2, MappedIsSequence
<1>3. IsSequence(req.pending)
  BY DEF RequestForm, HostMessages
<1>4. IsSequence(e) /\ Len(e) = m /\ DOMAIN e = DOMAIN req.pending /\ \A j \in DOMAIN req.pending : e[j] = PendingPlace(h, j)
  <2>1. e = [k \in DOMAIN req.pending |-> e[k]] /\ \A j \in DOMAIN req.pending : e[j] = PendingPlace(h, j)
    OBVIOUS
  <2> HIDE DEF e
  <2> QED
    BY <1>3, <2>1, MappedIsSequence
<1>5. IsSequence(f) /\ Len(f) = (IF req.current = None THEN 0 ELSE 1)
      /\ (req.current # None => f[1] = CurrentPlace(h + m + 1) /\ 1 \in DOMAIN f)
  <2>1. CASE req.current = None
    <3>1. f = << >>
      BY <2>1
    <3> HIDE DEF f
    <3> QED
      BY <2>1, <3>1 DEF IsSequence
  <2>2. CASE req.current # None
    <3> DEFINE p == CurrentPlace(h + m + 1)
    <3>1. f = <<p>>
      BY <2>2
    <3> HIDE DEF f, p
    <3>2. IsSequence(f) /\ Len(f) = 1 /\ f[1] = p /\ 1 \in DOMAIN f
      BY <3>1 DEF IsSequence, Range
    <3> QED
      BY <2>2, <3>2 DEF p
  <2> QED
    BY <2>1, <2>2
<1>6. \A g \in Segments : \A p \in Elements(placed(g)) : InSegment(p)
  BY DEF Elements, InSegment
<1>7. m \in Nat /\ DOMAIN req.pending = 1..m
  BY <1>3, SequenceDomain
<1> HIDE DEF placed, e, f, h, m
<1>8. {"system", "history", "memory", "tools"} = Segments
  BY DEF Segments
<1>9. \A p \in F : InSegment(p)
  BY <1>6, <1>8
<1>10. PICK n \in Nat : Composed(Places, n, F, e, f)
  <2>1. PICK a, b, c, d : /\ a = placed("system") /\ b = placed("history")
                          /\ c = placed("memory") /\ d = placed("tools")
    OBVIOUS
  <2>2. IsSequence(a) /\ IsSequence(b) /\ IsSequence(c) /\ IsSequence(d) /\ IsSequence(e) /\ IsSequence(f)
    BY <1>2, <1>4, <1>5, <1>8, <2>1
  <2>3. PICK w : w = Places
    OBVIOUS
  <2>4. w = a \o b \o c \o d \o e \o f
    BY <1>1, <2>1, <2>3
  <2>5. \E n \in Nat : Composed(w, n, Elements(a) \cup Elements(b) \cup Elements(c) \cup Elements(d), e, f)
    BY ONLY <2>2, <2>4, ComposedIs
  <2> QED
    BY <2>1, <2>3, <2>5
<1> HIDE DEF F
<1>11. PlacesFrom(n)
  <2>1. IsSequence(Places) /\ Len(Places) = n + m + (IF req.current = None THEN 0 ELSE 1)
    BY <1>4, <1>5, <1>10 DEF Composed
  <2>2. \A i \in 1..n : InSegment(Places[i])
    BY <1>9, <1>10 DEF Composed
  <2>3. \A j \in 1..m : Places[n + j] = PendingPlace(h, j)
    BY <1>4, <1>7, <1>10 DEF Composed
  <2>4. req.current # None => Places[n + m + 1] = CurrentPlace(h + m + 1)
    BY <1>4, <1>5, <1>10 DEF Composed
  <2> QED
    BY <2>1, <2>2, <2>3, <2>4 DEF PlacesFrom, h, m
<1> QED
  BY <1>11

\* The pending messages and the current turn, as they are compiled.
LEMMA TailIs ==
    ASSUME RequestForm(req), NEW n \in Nat, PlacesFrom(n)
    PROVE  LET m == Len(Places) - n
           IN  /\ m \in Nat /\ IsSequence(NamedTail) /\ Len(NamedTail) = m
               /\ \A j \in 1..m : NamedTail[j] = <<NamedPlaces[n + j], Places[n + j][2]>>
<1> DEFINE named == [k \in DOMAIN Places |-> <<NamedPlaces[k], Places[k][2]>>]
           S == {p \in Elements(named) : p[2].pending \/ p[2].current}
           q == Len(req.pending)
           m == q + (IF req.current = None THEN 0 ELSE 1)
           h == Len(Requested("history"))
<1>1. /\ IsSequence(Places) /\ Len(Places) = n + m
      /\ \A i \in 1..n : InSegment(Places[i])
      /\ \A j \in 1..q : Places[n + j] = PendingPlace(h, j)
      /\ req.current # None => Places[n + q + 1] = CurrentPlace(h + q + 1)
  <2>1. q \in Nat
    BY SequenceDomain DEF RequestForm, HostMessages
  <2>2. IsSequence(Places)
    BY DEF PlacesFrom
  <2>3. Len(Places) = n + q + (IF req.current = None THEN 0 ELSE 1)
    BY DEF PlacesFrom
  <2>4. \A i \in 1..n : InSegment(Places[i])
    BY DEF PlacesFrom
  <2>5. \A j \in 1..q : Places[n + j] = PendingPlace(h, j)
    BY DEF PlacesFrom
  <2>6. req.current # None => Places[n + q + 1] = CurrentPlace(h + q + 1)
    BY DEF PlacesFrom
  <2>7. Len(Places) = n + m
    <3> HIDE DEF q
    <3> QED
      BY <2>1, <2>3
  <2> HIDE DEF m, q, h
  <2> QED
    BY <2>2, <2>4, <2>5, <2>6, <2>7
<1>2. q \in Nat /\ m \in Nat
  BY SequenceDomain DEF RequestForm, HostMessages
<1>3. DOMAIN Places = 1..n + m
  BY <1>1, SequenceDomain
<1>4. IsSequence(named) /\ Len(named) = n + m /\ DOMAIN named = 1..n + m
      /\ \A k \in 1..n + m : named[k] = <<NamedPlaces[k], Places[k][2]>>
  <2>1. named = [k \in DOMAIN Places |-> named[k]]
    OBVIOUS
  <2>2. \A k \in 1..n + m : named[k] = <<NamedPlaces[k], Places[k][2]>>
    BY <1>3
  <2> HIDE DEF named
  <2>3. IsSequence(named) /\ Len(named) = Len(Places) /\ DOMAIN named = DOMAIN Places
    BY ONLY <1>1, <2>1, MappedIsSequence
  <2> QED
    BY <1>1, <1>3, <2>2, <2>3
<1>5. NamedTail = Kept(named, S)
  BY DEF NamedTail
<1> HIDE DEF named, m, q, h
<1>6. \A i \in 1..n : i \in 1..n + m
  BY <1>2
<1>7. \A j \in 1..m : n + j \in 1..n + m
  BY <1>2
<1>8. ASSUME NEW k \in 1..n
      PROVE  named[k] \notin S
  <2>1. PICK g \in Segments : \E i \in DOMAIN Requested(g) : Places[k] = <<Requested(g)[i], At(g, i, i)>>
    BY <1>1 DEF InSegment
  <2>2. ~Places[k][2].pending /\ ~Places[k][2].current
    BY <2>1 DEF At
  <2>3. named[k][2] = Places[k][2]
    BY <1>4, <1>6
  <2> QED
    BY <2>2, <2>3
<1>9. ASSUME NEW j \in 1..m
      PROVE  named[n + j] \in S
  <2>1. named[n + j][2] = Places[n + j][2] /\ named[n + j] \in Elements(named)
    BY <1>4, <1>7 DEF Elements
  <2>2. j \in 1..q \/ (req.current # None /\ n + j = n + q + 1)
    BY <1>2 DEF m
  <2>3. CASE j \in 1..q
    <3>1. Places[n + j] = PendingPlace(h, j)
      BY <1>1, <2>3
    <3>2. PendingPlace(h, j)[2].pending
      BY DEF PendingPlace, At
    <3> QED
      BY <2>1, <3>1, <3>2
  <2>4. CASE req.current # None /\ n + j = n + q + 1
    <3>1. Places[n + j][2].current
      BY <1>1, <2>4 DEF CurrentPlace, At
    <3> QED
      BY <2>1, <3>1
  <2> QED
    BY <2>2, <2>3, <2>4
<1>10. PICK t : t = NamedTail
  OBVIOUS
<1> HIDE DEF S
<1>11. IsSequence(t) /\ Len(t) = m /\ \A j \in 1..m : t[j] = named[n + j]
  <2>1. /\ \A k \in 1..n : named[k] \notin S
        /\ \A j \in 1..m : named[n + j] \in S
    BY <1>8, <1>9
  <2>2. t = Kept(named, S)
    BY <1>5, <1>10
  <2>3. IsSequence(named) /\ Len(named) = n + m
    BY <1>4
  <2>4. PICK w : w = named
    OBVIOUS
  <2>5. PICK c \in Nat : c = m
    BY <1>2
  <2>6. PICK T : T = S
    OBVIOUS
  <2>7. SplitBy(w, n, c, T)
    BY <2>1, <2>3, <2>4, <2>5, <2>6 DEF SplitBy
  <2>8. t = Kept(w, T)
    BY <2>2, <2>4, <2>6
  <2>9. ShortTo(t, w, n, c)
    BY ONLY n \in Nat, c \in Nat, <2>7, <2>8, KeptTail
  <2> QED
    BY <2>4, <2>5, <2>9 DEF ShortTo
<1>12. \A j \in 1..m : t[j] = <<NamedPlaces[n + j], Places[n + j][2]>>
  BY <1>4, <1>7, <1>11
<1>13. Len(Places) - n = m
  BY <1>1, <1>2
<1> QED
  BY <1>2, <1>10, <1>11, <1>12, <1>13

LEMMA PendingIs ==
    ASSUME RequestForm(req), NEW n \in Nat, PlacesFrom(n), NEW m, m = Len(Places) - n
    PROVE  /\ IsSequence(CompilePending) /\ DOMAIN CompilePending = 1..m
           /\ \A j \in 1..m : CompilePending[j].id = NamedPlaces[n + j].id
<1> DEFINE tail == [k \in DOMAIN NamedTail |-> NamedTail[k][1]]
           l == Len(tail)
           turn == [req.current.safe EXCEPT !.id = tail[l].id]
<1>1. m \in Nat /\ IsSequence(NamedTail) /\ Len(NamedTail) = m
      /\ \A j \in 1..m : NamedTail[j] = <<NamedPlaces[n + j], Places[n + j][2]>>
  BY TailIs
<1>2. DOMAIN NamedTail = 1..m
  BY <1>1, SequenceDomain
<1>3. IsSequence(tail) /\ DOMAIN tail = 1..m /\ \A j \in 1..m : tail[j] = NamedPlaces[n + j]
  <2>1. tail = [k \in DOMAIN NamedTail |-> tail[k]] /\ \A j \in 1..m : tail[j] = NamedPlaces[n + j]
    BY <1>1, <1>2
  <2> HIDE DEF tail
  <2>2. IsSequence(tail) /\ DOMAIN tail = DOMAIN NamedTail
    BY ONLY <1>1, <2>1, MappedIsSequence
  <2> QED
    BY <1>2, <2>1, <2>2
<1>4. CompilePending = IF req.current = None \/ req.current.safe = None THEN tail ELSE [tail EXCEPT ![l] = turn]
  BY DEF CompilePending
<1> HIDE DEF tail, l
<1>5. CASE req.current = None \/ req.current.safe = None
  BY <1>3, <1>4, <1>5
<1>6. CASE ~(req.current = None \/ req.current.safe = None)
  <2>1. "id" \in DOMAIN req.current.safe
    BY <1>6 DEF RequestForm, PromptMessage
  <2>2. turn.id = tail[l].id
    BY <2>1
  <2> HIDE DEF turn
  <2>3. PICK p : p = CompilePending
    OBVIOUS
  <2>4. p = [tail EXCEPT ![l] = turn]
    BY <1>4, <1>6, <2>3
  <2>5. DOMAIN p = 1..m /\ \A j \in 1..m : p[j].id = tail[j].id
    BY <1>3, <2>2, <2>4
  <2>6. p = [j \in DOMAIN tail |-> p[j]]
    BY <2>4
  <2>7. IsSequence(p)
    BY <1>3, <2>6, MappedIsSequence
  <2> QED
    BY <1>3, <2>3, <2>5, <2>7
<1> QED
  BY <1>5, <1>6

\* The message at the place i stands where the place says.
SlotStands(i, s, ps) ==
    LET at == Places[i][2]
        ms == IF at.segment = "history" THEN s["history"] \o ps ELSE s[at.segment]
    IN  at.index \in DOMAIN ms /\ ms[at.index].id = NamedPlaces[i].id

LEMMA NamedStands ==
    ASSUME RequestForm(req), NEW s, s = [g \in Segments |-> NamedSegment(g)],
           NEW ps, ps = CompilePending, NEW i \in DOMAIN Places
    PROVE  SlotStands(i, s, ps)
<1>1. PICK n \in Nat : PlacesFrom(n)
  BY PlacesAre
<1> DEFINE m == Len(Places) - n
           h == Len(Requested("history"))
           q == Len(req.pending)
           at == Places[i][2]
<1>2. m \in Nat
  BY <1>1, TailIs
<1>3. IsSequence(ps) /\ DOMAIN ps = 1..m /\ \A j \in 1..m : ps[j].id = NamedPlaces[n + j].id
  BY <1>1, PendingIs
<1>4. DOMAIN Places = 1..n + m
  <2>1. IsSequence(Places)
    BY <1>1 DEF PlacesFrom
  <2>2. Len(Places) \in Nat /\ DOMAIN Places = 1..Len(Places) /\ Len(Places) = n + m
    BY <2>1, SequenceDomain
  <2> HIDE DEF m
  <2> QED
    BY <2>2
<1>5. NamedPlaces[i] = Named(Places[i][1], Places[i][2])
  BY DEF NamedPlaces
<1>6. "history" \in Segments
  BY DEF Segments
<1>7. IsSequence(Requested("history")) /\ h \in Nat /\ DOMAIN Requested("history") = 1..h
  BY <1>6, RequestedIsSequence, SequenceDomain
<1>8. PICK hs : hs = s["history"]
  OBVIOUS
<1>9. IsSequence(hs) /\ Len(hs) = h
  <2>1. hs = NamedSegment("history")
    BY <1>6, <1>8
  <2>2. hs = [k \in DOMAIN Requested("history") |-> hs[k]]
    BY <2>1 DEF NamedSegment
  <2> QED
    BY <1>7, <2>2, MappedIsSequence
<1>10. PICK w : w = hs \o ps
  OBVIOUS
<1>11. /\ \A k \in DOMAIN hs : k \in DOMAIN w /\ w[k] = hs[k]
       /\ \A j \in DOMAIN ps : Len(hs) + j \in DOMAIN w /\ w[Len(hs) + j] = ps[j]
  BY <1>3, <1>9, <1>10, Joined
<1>12. CASE i \in 1..n
  <2>1. InSegment(Places[i])
    BY <1>1, <1>12 DEF PlacesFrom
  <2>2. PICK g \in Segments : \E k \in DOMAIN Requested(g) : Places[i] = <<Requested(g)[k], At(g, k, k)>>
    BY <2>1 DEF InSegment
  <2>3. PICK k \in DOMAIN Requested(g) : Places[i] = <<Requested(g)[k], At(g, k, k)>>
    BY <2>2
  <2>4. at.segment = g /\ at.index = k
    BY <2>3 DEF At
  <2>5. k \in DOMAIN s[g] /\ s[g][k] = NamedPlaces[i]
    BY <1>5, <2>3 DEF NamedSegment
  <2>6. g = "history" => k \in DOMAIN w /\ w[k] = s[g][k]
    BY <1>8, <1>11, <2>5
  <2> QED
    BY <1>8, <1>10, <2>4, <2>5, <2>6 DEF SlotStands
<1>13. CASE i \notin 1..n
  <2>1. PICK j \in 1..m : i = n + j
    <3> HIDE DEF m
    <3>1. i \in 1..n + m
      BY <1>4
    <3>2. i - n \in 1..m /\ i = n + (i - n)
      BY <1>2, <1>13, <3>1
    <3> QED
      BY <3>2
  <2>2. q \in Nat
    BY SequenceDomain DEF RequestForm, HostMessages
  <2>3. at.segment = "history" /\ at.index = h + j
    <3>1. m = q + (IF req.current = None THEN 0 ELSE 1)
      <4>1. Len(Places) = n + q + (IF req.current = None THEN 0 ELSE 1)
        BY <1>1 DEF PlacesFrom
      <4> HIDE DEF q
      <4> QED
        BY <2>2, <4>1
    <3>2. j \in 1..q \/ (req.current # None /\ j = q + 1)
      <4> HIDE DEF q, m
      <4> QED
        BY <2>2, <3>1
    <3>3. CASE j \in 1..q
      <4>1. Places[i] = PendingPlace(h, j)
        BY <1>1, <2>1, <3>3 DEF PlacesFrom
      <4> QED
        BY <4>1 DEF PendingPlace, At
    <3>4. CASE req.current # None /\ j = q + 1
      <4>1. Places[n + q + 1] = CurrentPlace(h + q + 1)
        BY <1>1, <3>4 DEF PlacesFrom
      <4>2. n + q + 1 = i /\ h + q + 1 = h + j
        <5> HIDE DEF q, h, m
        <5> QED
          BY <1>7, <2>1, <2>2, <3>4
      <4>3. Places[i] = CurrentPlace(h + j)
        BY <4>1, <4>2
      <4> QED
        BY <4>3 DEF CurrentPlace, At
    <3> QED
      BY <3>2, <3>3, <3>4
  <2>4. h + j \in DOMAIN w /\ w[h + j] = ps[j]
    BY <1>3, <1>9, <1>11, <2>1
  <2>5. ps[j].id = NamedPlaces[i].id
    BY <1>3, <2>1
  <2> QED
    BY <1>8, <1>10, <2>3, <2>4, <2>5 DEF SlotStands
<1> QED
  BY <1>12, <1>13

LEMMA NormalizeLocates ==
    ASSUME RequestForm(req), Normalize
    PROVE  WritebacksLocate'
<1>1. CASE pc' # "opaque"
  BY <1>1 DEF WritebacksLocate
<1>2. CASE pc' = "opaque"
  <2>1. snap' = [g \in Segments |-> NamedSegment(g)] /\ pend' = CompilePending /\ writebacks' = AssignedIDs
    BY <1>2 DEF Normalize, Fail
  <2> DEFINE named == [k \in DOMAIN Places |-> <<NamedPlaces[k], Places[k]>>]
             new == Kept(named, {p \in Elements(named) : p[2][1].id = NoID})
  <2>2. IsSequence(named)
    <3>1. PICK n \in Nat : PlacesFrom(n)
      BY PlacesAre
    <3>2. IsSequence(Places)
      BY <3>1 DEF PlacesFrom
    <3>3. named = [k \in DOMAIN Places |-> named[k]]
      OBVIOUS
    <3> HIDE DEF named
    <3> QED
      BY <3>2, <3>3, MappedIsSequence
  <2>3. AssignedIDs = [k \in DOMAIN new |-> [segment |-> new[k][2][2].segment, index |-> new[k][2][2].index,
                                            id |-> new[k][1].id, current |-> new[k][2][2].current]]
    BY DEF AssignedIDs
  <2>4. ASSUME NEW k \in DOMAIN writebacks'
        PROVE  LET w == writebacks'[k]
                   ms == IF w.segment = "history" THEN snap'["history"] \o pend' ELSE snap'[w.segment]
               IN  w.index \in DOMAIN ms /\ ms[w.index].id = w.id
    <3>1. k \in DOMAIN new /\ new[k] \in Elements(new)
      BY <2>1, <2>3 DEF Elements
    <3>2. Elements(new) \subseteq Elements(named)
      <4> HIDE DEF named
      <4> QED
        BY <2>2, KeptElements
    <3>3. PICK i \in DOMAIN Places : new[k] = <<NamedPlaces[i], Places[i]>>
      BY <3>1, <3>2 DEF Elements
    <3>4. /\ writebacks'[k].segment = Places[i][2].segment /\ writebacks'[k].index = Places[i][2].index
          /\ writebacks'[k].id = NamedPlaces[i].id
      <4> HIDE DEF new
      <4> QED
        BY <2>1, <2>3, <3>1, <3>3
    <3>5. SlotStands(i, snap', pend')
      BY <2>1, NamedStands
    <3> HIDE DEF new, named
    <3> QED
      BY <3>4, <3>5 DEF SlotStands
  <2> HIDE DEF new, named
  <2> QED
    BY <2>4 DEF WritebacksLocate
<1> QED
  BY <1>1, <1>2

\* Until its identities are assigned, a request keeps its form.
Located == (pc \in {"configure", "load", "recheck", "normalize"} => RequestForm(req)) /\ WritebacksLocate

\* An identity that is written back names the place of its message, for every
\* request and stored conversation (normalizeCompileRequest).
THEOREM WritebacksFound == PrepareSpec => []WritebacksLocate
<1>1. PrepareInit => Located
  BY GivenForm DEF PrepareInit, Located, WritebacksLocate
<1>2. ASSUME Located, [PrepareNext]_prepareVars
      PROVE  Located'
  <2>1. CASE CheckConfiguration \/ Recheck
    <3>1. req' = req /\ pc' # "opaque" /\ pc \in {"configure", "recheck"}
      BY <2>1 DEF CheckConfiguration, Recheck, Fail, source
    <3> QED
      BY <1>2, <3>1 DEF Located, WritebacksLocate
  <2>2. CASE LoadSnapshot
    <3>1. RequestForm(req)
      BY <1>2, <2>2 DEF LoadSnapshot, Located
    <3>2. pc' # "opaque" /\ (req' = req \/ \E stored \in Stored : req' = MergeCompileRequest(stored, req))
      BY <2>2 DEF LoadSnapshot, Fail, source
    <3>3. RequestForm(req')
      BY <3>1, <3>2, LoadedForm
    <3> QED
      BY <3>2, <3>3 DEF Located, WritebacksLocate
  <2>3. CASE Normalize
    <3>1. RequestForm(req)
      BY <1>2, <2>3 DEF Normalize, Located
    <3>2. pc' \in {"opaque", "failed"}
      BY <2>3 DEF Normalize, Fail
    <3> QED
      BY <2>3, <3>1, <3>2, NormalizeLocates DEF Located
  <2>4. CASE StartPreparation \/ SelectArtifact \/ AddArtifactMessages \/ ResolveBlock \/ AdmitResource
             \/ FinishBlock \/ FinishPreparation
    <3>1. pc' \in {"select", "deferred", "resource", "prepared", "failed"}
      BY <2>4 DEF StartPreparation, SelectArtifact, AddArtifactMessages, ResolveBlock, AdmitResource,
         FinishBlock, FinishPreparation, Fail, MaterializeFails
    <3> QED
      BY <3>1 DEF Located, WritebacksLocate
  <2>5. CASE Interrupted
    <3>1. pc' = "failed"
      BY <2>5 DEF Interrupted, Fail
    <3> QED
      BY <3>1 DEF Located, WritebacksLocate
  <2>6. CASE UNCHANGED prepareVars
    BY <1>2, <2>6 DEF prepareVars, Located, WritebacksLocate
  <2> QED
    BY <1>2, <2>1, <2>2, <2>3, <2>4, <2>5, <2>6 DEF PrepareNext, Finished
<1>3. Located => WritebacksLocate
  BY DEF Located
<1> QED
  BY <1>1, <1>2, <1>3, PTL DEF PrepareSpec

====
