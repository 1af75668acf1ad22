-------------------------- MODULE RoundRepairProofs --------------------------
(***************************************************************************)
(* The single pass over a history accepts exactly the valid ones, and what *)
(* a repair returns is such a history again, with the same rounds, nothing *)
(* but synthetic results added, and those exactly where decisions name an  *)
(* interrupted round: for histories of any length, any declarations and    *)
(* any decisions.                                                          *)
(***************************************************************************)
EXTENDS RoundRepair, FiniteSetTheorems, SequenceTheorems, WellFoundedInduction, TLAPS

-----------------------------------------------------------------------------
(* Induction and sequences *)

\* Induction over the natural numbers, for a set of them.
LEMMA NatSetInduction ==
    ASSUME NEW S, 0 \in S, \A n \in Nat : n \in S => n + 1 \in S
    PROVE  Nat \subseteq S
<1> DEFINE T == Nat \ S
<1>1. SUFFICES ASSUME T # {} PROVE FALSE
  OBVIOUS
<1>2. IsWellFoundedOn(OpToRel(<, Nat), Nat)
  BY NatLessThanWellFounded
<1>3. PICK x \in T : \A y \in T : ~(<<y, x>> \in OpToRel(<, Nat))
  BY <1>1, <1>2, WFMin
<1>4. x \in Nat /\ x # 0
  BY <1>3
<1>5. x - 1 \in Nat /\ x - 1 < x /\ (x - 1) + 1 = x
  BY <1>4
<1>6. <<x - 1, x>> \in OpToRel(<, Nat)
  BY <1>4, <1>5 DEF OpToRel
<1>7. x - 1 \notin T
  BY <1>3, <1>6
<1>8. x - 1 \in S
  BY <1>5, <1>7
<1> QED
  BY <1>3, <1>5, <1>8

IsSequence(s) == s \in Seq(Range(s))

\* What a sequence is a function on.
LEMMA SequenceDomain ==
    ASSUME NEW s, IsSequence(s)
    PROVE  Len(s) \in Nat /\ DOMAIN s = 1..Len(s)
BY DEF IsSequence

\* Induction over sequences, for a set of them.
LEMMA SeqSetInduction ==
    ASSUME NEW R, NEW P, << >> \in P,
           \A s \in Seq(R), x \in R : s \in P => Append(s, x) \in P
    PROVE  Seq(R) \subseteq P
<1> DEFINE N == {n \in Nat : \A s \in Seq(R) : Len(s) = n => s \in P}
<1>1. 0 \in N
  BY EmptySeq
<1>2. ASSUME NEW n \in Nat, n \in N
      PROVE  n + 1 \in N
  <2> SUFFICES ASSUME NEW s \in Seq(R), Len(s) = n + 1
               PROVE  s \in P
    OBVIOUS
  <2>1. s # << >>
    BY EmptySeq
  <2>2. PICK t \in Seq(R), x \in R : s = Append(t, x)
    BY <2>1, SequenceEmptyOrAppend
  <2>3. Len(t) = n
    BY <2>2, AppendProperties, LenProperties
  <2>4. t \in P
    BY <1>2, <2>3
  <2> QED
    BY <2>2, <2>4
<1> HIDE DEF N
<1>3. Nat \subseteq N
  BY <1>1, <1>2, NatSetInduction
<1>4. \A s \in Seq(R) : Len(s) \in Nat
  BY LenProperties
<1> QED
  BY <1>3, <1>4 DEF N

\* A nonempty set of natural numbers has a least one.
LEMMA MinOf ==
    ASSUME NEW S, S \subseteq Nat, S # {}
    PROVE  Min(S) \in S /\ \A y \in S : Min(S) <= y
<1>1. IsWellFoundedOn(OpToRel(<, Nat), Nat)
  BY NatLessThanWellFounded
<1>2. PICK x \in S : \A y \in S : ~(<<y, x>> \in OpToRel(<, Nat))
  BY <1>1, WFMin
<1>3. \A y \in S : x <= y
  <2> TAKE y \in S
  <2>1. ~(y < x)
    BY <1>2 DEF OpToRel
  <2> QED
    BY <2>1
<1> QED
  BY <1>2, <1>3 DEF Min

-----------------------------------------------------------------------------
(* What Kept keeps *)

\* f has, for every k, what is kept of the first k elements.
KeepsUpTo(f, n, s, S) ==
    f = [k \in 0..n |-> IF k = 0 THEN << >>
                        ELSE IF s[k] \in S THEN Append(f[k - 1], s[k]) ELSE f[k - 1]]

\* A table of what is kept of the first messages extends by one.
LEMMA KeepsExtends ==
    ASSUME NEW n \in Nat, NEW s, NEW S, NEW f, KeepsUpTo(f, n, s, S)
    PROVE  \E g : KeepsUpTo(g, n + 1, s, S)
<1> DEFINE g == [k \in 0..n + 1 |->
                   IF k <= n THEN f[k]
                   ELSE IF s[n + 1] \in S THEN Append(f[n], s[n + 1]) ELSE f[n]]
           body(k) == IF k = 0 THEN << >>
                      ELSE IF s[k] \in S THEN Append(g[k - 1], s[k]) ELSE g[k - 1]
<1>1. ASSUME NEW k \in 0..n + 1
      PROVE  g[k] = body(k)
  <2>1. CASE k <= n
    <3>1. g[k] = f[k] /\ (k # 0 => g[k - 1] = f[k - 1])
      BY <2>1
    <3>2. f[k] = IF k = 0 THEN << >>
                 ELSE IF s[k] \in S THEN Append(f[k - 1], s[k]) ELSE f[k - 1]
      <4>1. k \in 0..n
        BY <2>1
      <4> HIDE DEF g, body
      <4> QED
        BY <4>1 DEF KeepsUpTo
    <3> HIDE DEF g
    <3> QED
      BY <3>1, <3>2
  <2>2. CASE k = n + 1
    <3>1. g[n + 1] = (IF s[n + 1] \in S THEN Append(f[n], s[n + 1]) ELSE f[n]) /\ g[n] = f[n]
      OBVIOUS
    <3>2. n + 1 # 0 /\ (n + 1) - 1 = n
      OBVIOUS
    <3> HIDE DEF g
    <3> QED
      BY <2>2, <3>1, <3>2
  <2> QED
    BY <2>1, <2>2
<1>2. g = [k \in 0..n + 1 |-> g[k]]
  OBVIOUS
<1> HIDE DEF g
<1>3. g = [k \in 0..n + 1 |-> body(k)]
  BY <1>1, <1>2
<1> QED
  BY <1>3 DEF KeepsUpTo

\* There is such a table for every length.
LEMMA KeepsExists ==
    ASSUME NEW s, NEW S
    PROVE  \A n \in Nat : \E f : KeepsUpTo(f, n, s, S)
<1> DEFINE N == {n \in Nat : \E f : KeepsUpTo(f, n, s, S)}
<1>1. 0 \in N
  <2> DEFINE f == [k \in {0} |-> << >>]
  <2>1. 0..0 = {0}
    OBVIOUS
  <2>2. KeepsUpTo(f, 0, s, S)
    BY <2>1 DEF KeepsUpTo
  <2> QED
    BY <2>2
<1>2. \A n \in Nat : n \in N => n + 1 \in N
  BY KeepsExtends
<1> HIDE DEF N
<1>3. Nat \subseteq N
  BY <1>1, <1>2, NatSetInduction
<1> QED
  BY <1>3 DEF N

\* What is kept is the last entry of a table.
LEMMA KeptIs ==
    ASSUME NEW s, IsSequence(s), NEW S
    PROVE  \E f : KeepsUpTo(f, Len(s), s, S) /\ Kept(s, S) = f[Len(s)]
<1> DEFINE f == CHOOSE f : KeepsUpTo(f, Len(s), s, S)
<1>1. KeepsUpTo(f, Len(s), s, S)
  BY KeepsExists, SequenceDomain
<1>2. Kept(s, S) = f[Len(s)]
  BY DEF Kept, KeepsUpTo
<1> QED
  BY <1>1, <1>2

\* Kept, by the last element.
LEMMA KeptEmpty ==
    ASSUME NEW S
    PROVE  Kept(<< >>, S) = << >>
<1>1. IsSequence(<< >>) /\ Len(<< >>) = 0
  BY EmptySeq DEF IsSequence
<1>2. PICK f : KeepsUpTo(f, 0, << >>, S) /\ Kept(<< >>, S) = f[0]
  BY <1>1, KeptIs
<1> QED
  BY <1>2 DEF KeepsUpTo

\* What is kept of the first k elements depends on these alone.
LEMMA KeepsAgree ==
    ASSUME NEW s, NEW t, NEW S, NEW n \in Nat, NEW m \in Nat, n <= m,
           \A k \in 1..n : s[k] = t[k],
           NEW f, KeepsUpTo(f, n, s, S), NEW g, KeepsUpTo(g, m, t, S)
    PROVE  \A k \in 0..n : f[k] = g[k]
<1> DEFINE N == {k \in Nat : k <= n => f[k] = g[k]}
<1>1. 0 \in N
  BY DEF KeepsUpTo
<1>2. ASSUME NEW k \in Nat, k \in N
      PROVE  k + 1 \in N
  <2> SUFFICES ASSUME k + 1 <= n
               PROVE  f[k + 1] = g[k + 1]
    OBVIOUS
  <2>1. f[k] = g[k] /\ s[k + 1] = t[k + 1]
    BY <1>2
  <2>2. k + 1 \in 0..n /\ k + 1 \in 0..m /\ k + 1 # 0 /\ (k + 1) - 1 = k
    OBVIOUS
  <2>3. f[k + 1] = IF s[k + 1] \in S THEN Append(f[k], s[k + 1]) ELSE f[k]
    BY <2>2 DEF KeepsUpTo
  <2>4. g[k + 1] = IF t[k + 1] \in S THEN Append(g[k], t[k + 1]) ELSE g[k]
    BY <2>2 DEF KeepsUpTo
  <2> QED
    BY <2>1, <2>3, <2>4
<1> HIDE DEF N
<1>3. Nat \subseteq N
  BY <1>1, <1>2, NatSetInduction
<1> QED
  BY <1>3 DEF N

\* What is kept of a longer sequence.
LEMMA KeptAppend ==
    ASSUME NEW R, NEW s \in Seq(R), NEW x \in R, NEW S
    PROVE  Kept(Append(s, x), S) = IF x \in S THEN Append(Kept(s, S), x) ELSE Kept(s, S)
<1> DEFINE t == Append(s, x)
           n == Len(s)
<1>1. t \in Seq(R) /\ Len(t) = n + 1 /\ (\A k \in 1..n : t[k] = s[k]) /\ t[n + 1] = x /\ n \in Nat
  BY AppendProperties, LenProperties
<1>2. IsSequence(s) /\ IsSequence(t)
  BY <1>1, SeqOfRange DEF IsSequence
<1> HIDE DEF t, n
<1>3. PICK f : KeepsUpTo(f, n, s, S) /\ Kept(s, S) = f[n]
  BY <1>2, KeptIs DEF n
<1>4. PICK g : KeepsUpTo(g, n + 1, t, S) /\ Kept(t, S) = g[n + 1]
  BY <1>1, <1>2, KeptIs
<1>5. f[n] = g[n]
  <2>1. n <= n + 1 /\ n \in 0..n /\ n + 1 \in Nat
    BY <1>1
  <2>2. n + 1 \in Nat /\ n <= n + 1 /\ \A k \in 1..n : s[k] = t[k]
    BY <1>1
  <2>3. \A k \in 0..n : f[k] = g[k]
    BY <1>1, <1>3, <1>4, <2>2, KeepsAgree
  <2> QED
    BY <2>1, <2>3
<1>6. g[n + 1] = IF t[n + 1] \in S THEN Append(g[n], t[n + 1]) ELSE g[n]
  <2>1. n + 1 \in 0..n + 1 /\ n + 1 # 0 /\ (n + 1) - 1 = n
    BY <1>1
  <2> QED
    BY <1>4, <2>1 DEF KeepsUpTo
<1> QED
  BY <1>1, <1>3, <1>4, <1>5, <1>6 DEF t

\* What is kept is a sequence of elements of both.
LEMMA KeptType ==
    ASSUME NEW R, NEW s \in Seq(R), NEW S
    PROVE  Kept(s, S) \in Seq(R \cap S)
<1> DEFINE P == {t \in Seq(R) : Kept(t, S) \in Seq(R \cap S)}
<1>1. << >> \in P
  BY KeptEmpty, EmptySeq
<1>2. ASSUME NEW t \in Seq(R), NEW x \in R, t \in P
      PROVE  Append(t, x) \in P
  <2>1. Append(t, x) \in Seq(R)
    BY AppendProperties
  <2>2. CASE x \in S
    <3>1. Kept(Append(t, x), S) = Append(Kept(t, S), x)
      BY <2>2, KeptAppend
    <3>2. Kept(t, S) \in Seq(R \cap S) /\ x \in R \cap S
      BY <1>2, <2>2
    <3>3. Append(Kept(t, S), x) \in Seq(R \cap S)
      BY <3>2, AppendProperties
    <3> QED
      BY <2>1, <3>1, <3>3
  <2>3. CASE x \notin S
    BY <1>2, <2>1, <2>3, KeptAppend
  <2> QED
    BY <2>2, <2>3
<1> HIDE DEF P
<1>3. Seq(R) \subseteq P
  BY <1>1, <1>2, SeqSetInduction
<1> QED
  BY <1>3 DEF P

\* What is kept of two sequences behind each other.
LEMMA KeptConcat ==
    ASSUME NEW R, NEW s \in Seq(R), NEW t \in Seq(R), NEW S
    PROVE  Kept(s \o t, S) = Kept(s, S) \o Kept(t, S)
<1> DEFINE P == {u \in Seq(R) : Kept(s \o u, S) = Kept(s, S) \o Kept(u, S)}
<1>0. Kept(s, S) \in Seq(R \cap S) /\ \A u \in Seq(R) : Kept(u, S) \in Seq(R \cap S)
  BY KeptType
<1>1. << >> \in P
  BY <1>0, KeptEmpty, EmptySeq, ConcatEmptySeq
<1>2. ASSUME NEW u \in Seq(R), NEW x \in R, u \in P
      PROVE  Append(u, x) \in P
  <2>1. Append(u, x) \in Seq(R) /\ s \o u \in Seq(R)
    BY AppendProperties, ConcatProperties
  <2>2. s \o Append(u, x) = Append(s \o u, x)
    BY <2>1
  <2>3. Kept(Append(s \o u, x), S) = IF x \in S THEN Append(Kept(s \o u, S), x) ELSE Kept(s \o u, S)
    BY <2>1, KeptAppend
  <2>4. Kept(s \o u, S) = Kept(s, S) \o Kept(u, S)
    BY <1>2
  <2>5. Kept(Append(u, x), S) = IF x \in S THEN Append(Kept(u, S), x) ELSE Kept(u, S)
    BY KeptAppend
  <2>6. CASE x \notin S
    BY <2>1, <2>2, <2>3, <2>4, <2>5, <2>6
  <2>7. CASE x \in S
    <3> DEFINE a == Kept(s, S)
               b == Kept(u, S)
    <3>1. a \in Seq(R \cap S) /\ b \in Seq(R \cap S) /\ x \in R \cap S
      BY <1>0, <2>7
    <3> HIDE DEF a, b
    <3>2. a \o Append(b, x) = Append(a \o b, x)
      BY <3>1
    <3> QED
      BY <2>1, <2>2, <2>3, <2>4, <2>5, <2>7, <3>2 DEF a, b
  <2> QED
    BY <2>6, <2>7
<1> HIDE DEF P
<1>3. Seq(R) \subseteq P
  BY <1>1, <1>2, SeqSetInduction
<1> QED
  BY <1>3 DEF P

\* All of a sequence is kept when all its elements are.
LEMMA KeptAll ==
    ASSUME NEW S, NEW s \in Seq(S)
    PROVE  Kept(s, S) = s
<1> DEFINE P == {t \in Seq(S) : Kept(t, S) = t}
<1>1. << >> \in P
  BY KeptEmpty, EmptySeq
<1>2. ASSUME NEW t \in Seq(S), NEW x \in S, t \in P
      PROVE  Append(t, x) \in P
  BY <1>2, KeptAppend, AppendProperties
<1> HIDE DEF P
<1>3. Seq(S) \subseteq P
  BY <1>1, <1>2, SeqSetInduction
<1> QED
  BY <1>3 DEF P

-----------------------------------------------------------------------------
(* Where rounds end *)

\* Where the tool messages behind a message end.
LEMMA BlockEnd ==
    ASSUME NEW ms, IsSequence(ms), NEW i \in DOMAIN ms
    PROVE  LET e == ContiguousToolBlockEnd(ms, i)
           IN  /\ e \in i..Len(ms)
               /\ \A k \in i+1..e : ms[k].role = "tool"
               /\ e < Len(ms) => ms[e + 1].role # "tool"
<1> DEFINE n == Len(ms)
           S == {e \in i..n : e = n \/ ms[e + 1].role # "tool"}
           e == Min(S)
<1>1. n \in Nat /\ i \in 1..n
  BY SequenceDomain
<1> HIDE DEF n
<1>2. S \subseteq Nat /\ n \in S
  BY <1>1
<1>3. e \in S /\ \A y \in S : e <= y
  BY <1>2, MinOf
<1> HIDE DEF e
<1>4. e \in i..n /\ (e < n => ms[e + 1].role # "tool")
  BY <1>1, <1>3
<1>5. ASSUME NEW k \in i+1..e
      PROVE  ms[k].role = "tool"
  <2>1. k - 1 \in i..n /\ k - 1 < e /\ (k - 1) + 1 = k /\ k - 1 # n
    BY <1>1, <1>4
  <2>2. k - 1 \notin S
    BY <1>1, <1>3, <1>4, <2>1
  <2> QED
    BY <2>1, <2>2
<1> QED
  BY <1>4, <1>5 DEF ContiguousToolBlockEnd, n

\* The block behind i ends where the tool messages end.
LEMMA BlockEndIs ==
    ASSUME NEW ms, IsSequence(ms), NEW i \in DOMAIN ms, NEW e \in i..Len(ms),
           \A k \in i+1..e : ms[k].role = "tool",
           e < Len(ms) => ms[e + 1].role # "tool"
    PROVE  ContiguousToolBlockEnd(ms, i) = e
<1> DEFINE f == ContiguousToolBlockEnd(ms, i)
           n == Len(ms)
<1>1. n \in Nat /\ i \in 1..n
  BY SequenceDomain
<1>2. /\ f \in i..n
      /\ \A k \in i+1..f : ms[k].role = "tool"
      /\ f < n => ms[f + 1].role # "tool"
  BY BlockEnd
<1>3. e < n => ms[e + 1].role # "tool"
  OBVIOUS
<1> HIDE DEF f, n
<1>4. e \in i..n
  BY DEF n
<1>5. ~(f < e)
  <2> SUFFICES ASSUME f < e PROVE FALSE
    OBVIOUS
  <2>1. f + 1 \in i+1..e /\ f < n
    BY <1>1, <1>2, <1>4
  <2> QED
    BY <1>2, <2>1
<1>6. ~(e < f)
  <2> SUFFICES ASSUME e < f PROVE FALSE
    OBVIOUS
  <2>1. e + 1 \in i+1..f /\ e < n
    BY <1>1, <1>2, <1>4
  <2> QED
    BY <1>2, <1>3, <2>1
<1>7. e = f
  BY <1>1, <1>2, <1>4, <1>5, <1>6
<1> QED
  BY <1>7 DEF f

-----------------------------------------------------------------------------
(* What the missing calls of a round are *)

Distinct(s) == \A i, j \in DOMAIN s : s[i] = s[j] => i = j

\* The elements of what is kept.
LEMMA KeptMembers ==
    ASSUME NEW R, NEW s \in Seq(R), NEW S
    PROVE  Elements(Kept(s, S)) = Elements(s) \cap S
<1> DEFINE P == {t \in Seq(R) : Elements(Kept(t, S)) = Elements(t) \cap S}
<1>0. \A t \in Seq(R) : Kept(t, S) \in Seq(R \cap S)
  BY KeptType
<1>1. << >> \in P
  BY KeptEmpty, EmptySeq DEF Elements
<1>2. ASSUME NEW t \in Seq(R), NEW x \in R, t \in P
      PROVE  Append(t, x) \in P
  <2>1. Append(t, x) \in Seq(R)
    BY AppendProperties
  <2>2. \A A : \A u \in Seq(A), y \in A : Elements(Append(u, y)) = Elements(u) \cup {y}
    <3> SUFFICES ASSUME NEW A, NEW u \in Seq(A), NEW y \in A
                 PROVE  Elements(Append(u, y)) = Elements(u) \cup {y}
      OBVIOUS
    <3>1. /\ DOMAIN Append(u, y) = 1..Len(u) + 1 /\ DOMAIN u = 1..Len(u) /\ Len(u) \in Nat
          /\ \A k \in 1..Len(u) : Append(u, y)[k] = u[k]
          /\ Append(u, y)[Len(u) + 1] = y
      BY AppendProperties, LenProperties
    <3>2. \A k \in 1..Len(u) + 1 : k \in 1..Len(u) \/ k = Len(u) + 1
      BY <3>1
    <3>3. \A k \in 1..Len(u) : k \in 1..Len(u) + 1
      BY <3>1
    <3>4. Len(u) + 1 \in 1..Len(u) + 1
      BY <3>1
    <3> QED
      BY <3>1, <3>2, <3>3, <3>4 DEF Elements
  <2>3. Elements(Append(t, x)) = Elements(t) \cup {x}
    BY <2>2
  <2>4. CASE x \in S
    <3>1. Kept(t, S) \in Seq(R \cap S) /\ x \in R \cap S
      BY <1>0, <2>4
    <3>2. Elements(Append(Kept(t, S), x)) = Elements(Kept(t, S)) \cup {x}
      BY <2>2, <3>1
    <3>3. Kept(Append(t, x), S) = Append(Kept(t, S), x)
      BY <2>4, KeptAppend
    <3> QED
      BY <1>2, <2>1, <2>3, <2>4, <3>2, <3>3
  <2>5. CASE x \notin S
    <3>1. Kept(Append(t, x), S) = Kept(t, S)
      BY <2>5, KeptAppend
    <3> QED
      BY <1>2, <2>1, <2>3, <2>5, <3>1
  <2> QED
    BY <2>4, <2>5
<1> HIDE DEF P
<1>3. Seq(R) \subseteq P
  BY <1>1, <1>2, SeqSetInduction
<1> QED
  BY <1>3 DEF P

\* Elements that occur once occur once in what is kept.
LEMMA KeptDistinct ==
    ASSUME NEW R, NEW s \in Seq(R), NEW S, Distinct(s)
    PROVE  Distinct(Kept(s, S))
<1> DEFINE P == {t \in Seq(R) : Distinct(t) => Distinct(Kept(t, S))}
<1>1. << >> \in P
  BY KeptEmpty, EmptySeq DEF Distinct
<1>2. ASSUME NEW t \in Seq(R), NEW x \in R, t \in P
      PROVE  Append(t, x) \in P
  <2>1. Append(t, x) \in Seq(R)
    BY AppendProperties
  <2> SUFFICES ASSUME Distinct(Append(t, x))
               PROVE  Distinct(Kept(Append(t, x), S))
    BY <2>1
  <2>2. /\ Len(t) \in Nat /\ DOMAIN t = 1..Len(t) /\ DOMAIN Append(t, x) = 1..Len(t) + 1
        /\ (\A k \in 1..Len(t) : Append(t, x)[k] = t[k]) /\ Append(t, x)[Len(t) + 1] = x
    BY AppendProperties, LenProperties
  <2>3. \A k \in 1..Len(t) : k \in 1..Len(t) + 1 /\ k # Len(t) + 1
    BY <2>2
  <2>4. Len(t) + 1 \in 1..Len(t) + 1
    BY <2>2
  <2>5. Distinct(t)
    BY <2>2, <2>3 DEF Distinct
  <2>6. \A k \in DOMAIN t : t[k] # x
    BY <2>2, <2>3, <2>4 DEF Distinct
  <2>7. Distinct(Kept(t, S))
    BY <1>2, <2>5
  <2>8. CASE x \notin S
    BY <2>7, <2>8, KeptAppend
  <2>9. CASE x \in S
    <3> DEFINE u == Kept(t, S)
               v == Append(u, x)
    <3>1. u \in Seq(R \cap S) /\ x \in R \cap S
      BY <2>9, KeptType
    <3>2. Elements(u) = Elements(t) \cap S
      BY KeptMembers
    <3>3. Kept(Append(t, x), S) = v
      BY <2>9, KeptAppend
    <3>4. \A k \in DOMAIN u : u[k] # x
      BY <2>6, <3>2 DEF Elements
    <3> HIDE DEF u
    <3>5. /\ Len(u) \in Nat /\ DOMAIN u = 1..Len(u) /\ DOMAIN v = 1..Len(u) + 1
          /\ (\A k \in 1..Len(u) : v[k] = u[k]) /\ v[Len(u) + 1] = x
      BY <3>1, AppendProperties, LenProperties
    <3>6. \A k \in 1..Len(u) + 1 : k \in 1..Len(u) \/ k = Len(u) + 1
      BY <3>5
    <3>7. Distinct(u)
      BY <2>7 DEF u
    <3> HIDE DEF v
    <3>8. Distinct(v)
      BY <3>4, <3>5, <3>6, <3>7 DEF Distinct
    <3> QED
      BY <3>3, <3>8
  <2> QED
    BY <2>8, <2>9
<1> HIDE DEF P
<1>3. Seq(R) \subseteq P
  BY <1>1, <1>2, SeqSetInduction
<1> QED
  BY <1>3 DEF P

\* Calls with identities of their own are different.
LEMMA CallsDistinct ==
    ASSUME NEW calls, IsSequence(calls), CallIDsValid(calls)
    PROVE  Distinct(calls)
<1> DEFINE n == Len(calls)
           E == Elements(calls)
<1>1. n \in Nat /\ DOMAIN calls = 1..n /\ calls \in [1..n -> Range(calls)]
  BY SequenceDomain DEF IsSequence
<1>2. E = Range(calls)
  BY DEF Elements, Range
<1>3. calls \in Surjection(1..n, E)
  BY <1>1, <1>2 DEF Surjection, Elements
<1>4. IsFiniteSet(1..n) /\ Cardinality(1..n) = n
  BY <1>1, FS_Interval
<1>5. Cardinality(E) = n
  BY DEF CallIDsValid
<1> HIDE DEF n, E
<1>6. calls \in Injection(1..n, E)
  BY <1>3, <1>4, <1>5, FS_Surjection
<1> QED
  BY <1>1, <1>6 DEF Injection, IsInjective, Distinct

\* The results that a round lacks: of calls of it, each once, and of all that are
\* not answered.
LEMMA MissingOf ==
    ASSUME NEW ms, NEW s, IsSequence(ms[s].calls), CallIDsValid(ms[s].calls)
    PROVE  LET missing == MissingCalls(ms, s)
               answered == Answered(ms, s + 1, ContiguousToolBlockEnd(ms, s))
           IN  /\ IsSequence(missing) /\ Distinct(missing)
               /\ Elements(missing) = Elements(ms[s].calls) \ answered
               /\ LocalState(ms, s) = "pending" => missing # << >>
<1> DEFINE calls == ms[s].calls
           answered == Answered(ms, s + 1, ContiguousToolBlockEnd(ms, s))
           R == Range(calls)
           S == Elements(calls) \ answered
           missing == Kept(calls, S)
<1>1. calls \in Seq(R)
  BY DEF IsSequence
<1>2. Distinct(calls)
  BY CallsDistinct
<1>3. MissingCalls(ms, s) = missing
  BY DEF MissingCalls
<1>4. LocalState(ms, s) = "pending" => S # {}
  BY DEF LocalState
<1> HIDE DEF calls, answered, R
<1>5. missing \in Seq(R \cap S)
  BY <1>1, KeptType
<1>6. Distinct(missing) /\ Elements(missing) = Elements(calls) \cap S
  BY <1>1, <1>2, KeptDistinct, KeptMembers
<1>7. Elements(missing) = S
  BY <1>6
<1> HIDE DEF missing, S
<1>8. missing = << >> => Elements(missing) = {}
  BY DEF Elements
<1>9. IsSequence(missing)
  BY <1>5 DEF IsSequence, Range
<1> QED
  BY <1>3, <1>4, <1>6, <1>7, <1>8, <1>9 DEF calls, answered, S

-----------------------------------------------------------------------------
(* The inductive invariant *)

\* An observation is of a valid round whose declaration does not contradict it.
RoundOK(o) ==
    /\ o.start \in Opens(input)
    /\ o = Observation(input, o.start)
    /\ RoundValid(input, o.start)
    /\ input[o.start].results = << >>
    /\ declared[o.id] \in States \cup {"none"}
    /\ ~Conflict(input, o.start)

\* The positions below n are those of rounds that were observed, in order, and of
\* messages between them.
ScannedTo(n) ==
    /\ \A k \in DOMAIN observations : RoundOK(observations[k]) /\ observations[k].end < n
    /\ \A j, k \in DOMAIN observations : j < k => observations[j].end < observations[k].start
    /\ \A s \in Opens(input) : s < n => \E k \in DOMAIN observations : observations[k].start = s
    /\ \A j, k \in DOMAIN observations :
         observations[j].id = observations[k].id => j = k \/ observations[j].id = NoID
    /\ \A i \in DOMAIN input : i < n =>
         InToolBlock(input, i) \/ (input[i].role # "tool" /\ input[i].results = << >>)

ScanOK ==
    /\ IsSequence(observations)
    /\ pc = "scan" =>
         /\ index \in 1..Len(input) + 1
         /\ ScannedTo(index)
         /\ seen = {observations[k].id : k \in DOMAIN observations}
    /\ pc \in {"decide", "copy"} \/ answer = "repaired" => ScannedTo(Len(input) + 1)
    /\ answer = "invalid round" => ~LayoutValid(input)

\* The k-th round was interrupted.
IsInterrupted(k) == observations[k].state = "interrupted"

\* One of the first n rounds was repaired and ends at i.
Repaired(n, i) == \E j \in 1..n : IsInterrupted(j) /\ observations[j].end = i

\* In o, which has what was copied of the first c messages and the first n rounds,
\* the i-th message stands at P[i], and the rest are synthetic messages.
Placed(P, n, c, o) ==
    /\ P \in [1..c -> 1..Len(o)]
    /\ \A i \in 1..c : o[P[i]] = input[i]
    /\ \A i, j \in 1..c : i < j => P[i] < P[j]
    /\ \A i, j \in 1..c : j = i + 1 => P[j] = P[i] + (IF Repaired(n, i) THEN 2 ELSE 1)
    /\ Len(o) = IF c = 0 THEN 0 ELSE P[c] + (IF Repaired(n, c) THEN 1 ELSE 0)
    /\ \A j \in 1..n : IsInterrupted(j) =>
         /\ P[observations[j].end] + 1 \in 1..Len(o)
         /\ o[P[observations[j].end] + 1] = SyntheticMessage(input, observations[j])
    /\ \A q \in 1..Len(o) :
         \/ \E i \in 1..c : q = P[i]
         \/ \E j \in 1..n : IsInterrupted(j) /\ q = P[observations[j].end] + 1

\* o is what was copied of the first c messages and the first n rounds: without
\* the synthetic messages, these messages.
CopiedTo(n, c, o) ==
    /\ c \in 0..Len(input)
    /\ IsSequence(o)
    /\ n \in 0..Len(observations)
    /\ \A j \in 1..n : observations[j].end <= c
    /\ \E P : Placed(P, n, c, o)
    /\ Kept(o, Elements(input)) = SubSeq(input, 1, c)
    /\ \A j \in 1..n : IsInterrupted(j) => SyntheticMessage(input, observations[j]) \notin Elements(input)

CopyOK ==
    /\ pc \in {"scan", "decide"} => cursor = 0 /\ out = << >>
    /\ pc = "copy" =>
         /\ index \in 1..Len(observations) + 1
         /\ CopiedTo(index - 1, cursor, out)
         /\ index > 1 => cursor = observations[index - 1].end
         /\ index = 1 => cursor = 0
         /\ \A i \in DOMAIN input : input[i].id \in usedIDs
    /\ pc = "copy" \/ answer = "repaired" => DecisionsMatch
    /\ answer = "repaired" => cursor = Len(input) /\ CopiedTo(Len(observations), cursor, out)

\* The conjunction that every step preserves.
Inv ==
    /\ input \in Histories
    /\ pc # "done" => answer = "none"
    /\ pc \in {"scan", "decide", "copy", "done"}
    /\ ScanOK
    /\ CopyOK

-----------------------------------------------------------------------------
(* The scan *)

\* The frozen history is a sequence of messages.
LEMMA InputSequence ==
    ASSUME Inv
    PROVE  /\ IsSequence(input)
           /\ Len(input) \in Nat /\ DOMAIN input = 1..Len(input)
           /\ \A i \in DOMAIN input : IsSequence(input[i].calls)
<1>1. IsSequence(input) /\ \A i \in DOMAIN input : IsSequence(input[i].calls)
  BY HistoriesAssumption DEF Inv, IsSequence
<1> QED
  BY <1>1, SequenceDomain

\* The invariant holds when the call starts.
LEMMA InitInv ==
    ASSUME Init
    PROVE  Inv
<1>1. IsSequence(input) /\ Len(input) \in Nat
  BY HistoriesAssumption, SequenceDomain DEF Init, IsSequence
<1>2. DOMAIN input = 1..Len(input)
  BY <1>1, SequenceDomain
<1>3. DOMAIN observations = {}
  BY DEF Init
<1>4. IsSequence(observations)
  BY DEF Init, IsSequence
<1>5. ScannedTo(1)
  BY <1>1, <1>2, <1>3 DEF ScannedTo, Opens
<1>6. ScanOK
  <2>1. index \in 1..Len(input) + 1
    BY <1>1 DEF Init
  <2>2. seen = {observations[k].id : k \in DOMAIN observations}
    BY <1>3 DEF Init
  <2> QED
    BY <1>4, <1>5, <2>1, <2>2 DEF Init, ScanOK
<1>7. CopyOK
  BY DEF Init, CopyOK
<1> QED
  BY <1>6, <1>7 DEF Init, Inv

\* What ends a call changes neither the scan nor the copy.
LEMMA AnswerInv ==
    ASSUME Inv, NEW kind, Answer(kind), kind # "repaired",
           kind = "invalid round" => ~LayoutValid(input)
    PROVE  Inv'
<1>1. /\ UNCHANGED <<input, declared, decisions, index, observations, seen, cursor, out, usedIDs>>
      /\ pc' = "done" /\ answer' = kind
  BY DEF Answer
<1>2. ScanOK'
  BY <1>1 DEF Inv, ScanOK, LayoutValid, IsSequence
<1>3. CopyOK'
  BY <1>1 DEF CopyOK
<1> QED
  BY <1>1, <1>2, <1>3 DEF Inv

\* Where the scan stands there is no message of a round before it.
LEMMA BeyondRounds ==
    ASSUME Inv, pc = "scan", index \in DOMAIN input
    PROVE  ~InToolBlock(input, index)
<1> SUFFICES ASSUME InToolBlock(input, index) PROVE FALSE
  OBVIOUS
<1>1. PICK s \in Opens(input) : s < index /\ index <= ContiguousToolBlockEnd(input, s)
  BY DEF InToolBlock
<1>2. ScannedTo(index)
  BY DEF Inv, ScanOK
<1>3. PICK k \in DOMAIN observations : observations[k].start = s
  BY <1>1, <1>2 DEF ScannedTo
<1>4. observations[k].end = ContiguousToolBlockEnd(input, s) /\ observations[k].end < index
  BY <1>2, <1>3 DEF ScannedTo, RoundOK, Observation
<1>5. s \in DOMAIN input /\ ContiguousToolBlockEnd(input, s) \in Int /\ index \in Int
  BY <1>1, InputSequence, BlockEnd DEF Opens
<1> QED
  BY <1>1, <1>4, <1>5

\* Where the scan stands.
LEMMA ScanIndex ==
    ASSUME Inv, Scanning
    PROVE  /\ pc = "scan" /\ ScannedTo(index)
           /\ index \in 1..Len(input) /\ index \in DOMAIN input /\ index \in Nat
           /\ Len(input) \in Nat /\ DOMAIN input = 1..Len(input)
<1>1. index \in 1..Len(input) + 1 /\ index <= Len(input) /\ pc = "scan" /\ ScannedTo(index)
  BY DEF Inv, ScanOK, Scanning
<1>2. Len(input) \in Nat /\ DOMAIN input = 1..Len(input)
  BY InputSequence
<1> QED
  BY <1>1, <1>2

\* A history that is rejected for its layout is not valid.
LEMMA RejectLayoutInv ==
    ASSUME Inv, RejectLayout
    PROVE  Inv'
<1>1. pc = "scan" /\ index <= Len(input) /\ Answer("invalid round")
  BY DEF RejectLayout, Scanning
<1>2. index \in DOMAIN input /\ index \in Nat
  BY ScanIndex DEF RejectLayout
<1>3. ~LayoutValid(input)
  <2> SUFFICES ASSUME LayoutValid(input) PROVE FALSE
    OBVIOUS
  <2>1. input[index].role # "tool" /\ input[index].results = << >>
    BY <1>1, <1>2, BeyondRounds DEF LayoutValid
  <2>2. HasToolCalls(input[index])
    BY <2>1 DEF RejectLayout, Misplaced
  <2>3. index \in Opens(input)
    BY <1>2, <2>1, <2>2 DEF Opens
  <2>4. RoundValid(input, index) /\ input[index].role = "assistant"
    BY <2>3 DEF LayoutValid, RoundValid
  <2>5. input[index].id # NoID /\ input[index].id \in seen
    BY <2>1, <2>4 DEF RejectLayout, Misplaced
  <2>6. ScannedTo(index) /\ seen = {observations[k].id : k \in DOMAIN observations}
    BY <1>1 DEF Inv, ScanOK
  <2>7. PICK k \in DOMAIN observations : observations[k].id = input[index].id
    BY <2>5, <2>6
  <2> DEFINE s == observations[k].start
  <2>8. s \in Opens(input) /\ input[s].id = input[index].id /\ ContiguousToolBlockEnd(input, s) < index
    BY <2>6, <2>7 DEF ScannedTo, RoundOK, Observation
  <2>9. s = index
    BY <2>3, <2>5, <2>8 DEF LayoutValid
  <2>10. ContiguousToolBlockEnd(input, index) \in index..Len(input)
    BY <1>2, InputSequence, BlockEnd
  <2> QED
    BY <1>2, <2>8, <2>9, <2>10
<1> QED
  BY <1>1, <1>3, AnswerInv

\* A message between rounds is passed.
LEMMA SkipMessageInv ==
    ASSUME Inv, SkipMessage
    PROVE  Inv'
<1>1. /\ pc = "scan" /\ index <= Len(input) /\ ~Misplaced(input[index]) /\ ~HasToolCalls(input[index])
      /\ index' = index + 1 /\ UNCHANGED <<input, declared, decisions, pc, observations, seen, cursor, out, usedIDs, answer>>
  BY DEF SkipMessage, Scanning
<1>2. index \in 1..Len(input) /\ index \in DOMAIN input /\ Len(input) \in Nat /\ DOMAIN input = 1..Len(input)
  BY <1>1, InputSequence DEF Inv, ScanOK
<1>3. ScannedTo(index)
  BY <1>1 DEF Inv, ScanOK
<1>4. \A i \in DOMAIN input : i < index + 1 => i < index \/ i = index
  BY <1>2
<1>5. input[index].role # "tool" /\ input[index].results = << >> /\ index \notin Opens(input)
  BY <1>1 DEF Misplaced, Opens
<1>6. \A k \in DOMAIN observations : RoundOK(observations[k]) /\ observations[k].end < index + 1
  <2> SUFFICES ASSUME NEW k \in DOMAIN observations
               PROVE  RoundOK(observations[k]) /\ observations[k].end < index + 1
    OBVIOUS
  <2>1. RoundOK(observations[k]) /\ observations[k].end < index
    BY <1>3 DEF ScannedTo
  <2>2. observations[k].end \in Int
    BY <2>1, InputSequence, BlockEnd DEF RoundOK, Observation, Opens
  <2> QED
    BY <1>2, <2>1, <2>2
<1>7. ScannedTo(index + 1)
  BY <1>3, <1>4, <1>5, <1>6 DEF ScannedTo, Opens
<1>8. ScannedTo(index)'
  BY <1>1, <1>7 DEF ScannedTo, RoundOK, Conflict, Observation
<1>9. ScanOK'
  <2>1. index' \in 1..Len(input) + 1
    BY <1>1, <1>2
  <2>2. IsSequence(observations)'
    BY <1>1 DEF Inv, ScanOK, IsSequence
  <2>3. (seen = {observations[k].id : k \in DOMAIN observations})'
    BY <1>1 DEF Inv, ScanOK
  <2> QED
    BY <1>1, <1>8, <2>1, <2>2, <2>3 DEF Inv, ScanOK
<1>10. CopyOK'
  BY <1>1 DEF Inv, CopyOK
<1> QED
  BY <1>1, <1>9, <1>10 DEF Inv

\* A declaration that does not fit ends the call.
LEMMA RejectDeclaredInv ==
    ASSUME Inv, RejectDeclared
    PROVE  Inv'
<1>1. Answer("unknown state") \/ Answer("conflict")
  BY DEF RejectDeclared
<1> QED
  BY <1>1, AnswerInv

\* The ends of the rounds observed are positions.
LEMMA RoundEnds ==
    ASSUME Inv, NEW o, RoundOK(o)
    PROVE  /\ o.start \in DOMAIN input /\ o.start \in Nat /\ o.end \in Nat
           /\ o.end \in o.start..Len(input)
           /\ o.end = ContiguousToolBlockEnd(input, o.start)
           /\ o.id = input[o.start].id
           /\ \A k \in o.start + 1..o.end : input[k].role = "tool"
           /\ o.end < Len(input) => input[o.end + 1].role # "tool"
<1>1. o.start \in DOMAIN input /\ o.end = ContiguousToolBlockEnd(input, o.start) /\ o.id = input[o.start].id
  BY DEF RoundOK, Opens, Observation
<1>2. IsSequence(input) /\ DOMAIN input = 1..Len(input) /\ Len(input) \in Nat
  BY InputSequence
<1>3. /\ o.end \in o.start..Len(input)
      /\ \A k \in o.start + 1..o.end : input[k].role = "tool"
      /\ o.end < Len(input) => input[o.end + 1].role # "tool"
  BY <1>1, <1>2, BlockEnd
<1> QED
  BY <1>1, <1>2, <1>3

\* A round is observed, and every message of it is behind the scan.
LEMMA ObserveRoundInv ==
    ASSUME Inv, ObserveRound
    PROVE  Inv'
<1> DEFINE o == Observation(input, index)
           e == ContiguousToolBlockEnd(input, index)
           n == Len(observations)
           obs == Append(observations, o)
<1>1. /\ Scanning /\ ~Misplaced(input[index]) /\ HasToolCalls(input[index]) /\ RoundValid(input, index)
      /\ declared[input[index].id] \in States \cup {"none"} /\ ~Conflict(input, index)
      /\ observations' = obs /\ seen' = seen \cup {input[index].id} /\ index' = e + 1
      /\ UNCHANGED <<input, declared, decisions, pc, cursor, out, usedIDs, answer>>
  BY DEF ObserveRound
<1>2. /\ pc = "scan" /\ ScannedTo(index)
      /\ index \in 1..Len(input) /\ index \in DOMAIN input /\ index \in Nat
      /\ Len(input) \in Nat /\ DOMAIN input = 1..Len(input)
  BY <1>1, ScanIndex
<1>3. index \in Opens(input) /\ input[index].results = << >> /\ input[index].role # "tool"
  BY <1>1, <1>2 DEF Misplaced, Opens
<1>4. o.start = index /\ o.end = e /\ o.id = input[index].id
  BY DEF Observation
<1>5. RoundOK(o)
  BY <1>1, <1>3, <1>4 DEF RoundOK
<1>6. e \in index..Len(input) /\ e \in Nat /\ \A k \in index + 1..e : input[k].role = "tool"
  BY <1>4, <1>5, RoundEnds
<1>7. /\ IsSequence(observations) /\ n \in Nat /\ DOMAIN observations = 1..n /\ DOMAIN obs = 1..n + 1
      /\ (\A k \in 1..n : obs[k] = observations[k]) /\ obs[n + 1] = o
      /\ IsSequence(obs)
  <2>1. IsSequence(observations) /\ n \in Nat /\ DOMAIN observations = 1..n
    BY SequenceDomain DEF Inv, ScanOK
  <2>2. observations \in Seq(Range(observations) \cup {o})
    BY <2>1 DEF IsSequence
  <2>3. obs \in Seq(Range(observations) \cup {o})
    BY <2>2, AppendProperties
  <2>4. IsSequence(obs)
    BY <2>3, SeqOfRange DEF IsSequence
  <2> QED
    BY <2>1, <2>2, <2>4, AppendProperties
<1> HIDE DEF o, e, n, obs
<1>8. \A k \in 1..n + 1 : k \in 1..n \/ k = n + 1
  BY <1>7
<1>9. \A k \in 1..n : RoundOK(observations[k]) /\ observations[k].end < index /\ observations[k].end \in Nat /\ observations[k].start \in Nat
  <2> SUFFICES ASSUME NEW k \in 1..n
               PROVE  RoundOK(observations[k]) /\ observations[k].end < index /\ observations[k].end \in Nat /\ observations[k].start \in Nat
    OBVIOUS
  <2>1. RoundOK(observations[k]) /\ observations[k].end < index
    BY <1>2, <1>7 DEF ScannedTo
  <2> QED
    BY <2>1, RoundEnds
<1>10. \A k \in 1..n + 1 : RoundOK(obs[k]) /\ obs[k].end < e + 1
  <2> SUFFICES ASSUME NEW k \in 1..n + 1
               PROVE  RoundOK(obs[k]) /\ obs[k].end < e + 1
    OBVIOUS
  <2>1. CASE k \in 1..n
    <3>1. obs[k] = observations[k] /\ RoundOK(observations[k]) /\ observations[k].end < index /\ observations[k].end \in Nat
      BY <1>7, <1>9, <2>1
    <3> QED
      BY <1>2, <1>6, <3>1
  <2>2. CASE k = n + 1
    BY <1>4, <1>5, <1>6, <1>7, <2>2
  <2> QED
    BY <1>8, <2>1, <2>2
<1>11. \A j, k \in 1..n + 1 : j < k => obs[j].end < obs[k].start
  <2> SUFFICES ASSUME NEW j \in 1..n + 1, NEW k \in 1..n + 1, j < k
               PROVE  obs[j].end < obs[k].start
    OBVIOUS
  <2>1. j \in 1..n
    BY <1>7
  <2>2. CASE k \in 1..n
    BY <1>2, <1>7, <2>1, <2>2 DEF ScannedTo
  <2>3. CASE k = n + 1
    BY <1>4, <1>7, <1>9, <2>1, <2>3
  <2> QED
    BY <1>8, <2>2, <2>3
<1>12. ASSUME NEW s \in Opens(input), s < e + 1
       PROVE  \E k \in 1..n + 1 : obs[k].start = s
  <2>1. s \in Nat /\ s \in DOMAIN input /\ input[s].role # "tool"
    BY <1>2 DEF Opens
  <2>2. CASE s < index
    <3>1. PICK k \in 1..n : observations[k].start = s
      BY <1>2, <1>7, <2>2 DEF ScannedTo
    <3> QED
      BY <1>7, <3>1
  <2>3. CASE s = index
    <3>1. n + 1 \in 1..n + 1
      BY <1>7
    <3> QED
      BY <1>4, <1>7, <2>3, <3>1
  <2>4. CASE index < s
    <3>1. s \in index + 1..e
      BY <1>2, <1>6, <1>12, <2>1, <2>4
    <3> QED
      BY <1>6, <2>1, <3>1
  <2> QED
    BY <1>2, <2>1, <2>2, <2>3, <2>4
<1>13. seen = {observations[k].id : k \in 1..n}
  BY <1>2, <1>7 DEF Inv, ScanOK
<1>14. seen' = {obs[k].id : k \in 1..n + 1}
  <2>1. n + 1 \in 1..n + 1 /\ 1..n \subseteq 1..n + 1
    BY <1>7
  <2> QED
    BY <1>1, <1>4, <1>7, <1>8, <1>13, <2>1
<1>15. input[index].id = NoID \/ input[index].id \notin seen
  BY <1>1 DEF Misplaced
<1>16. \A j, k \in 1..n + 1 : obs[j].id = obs[k].id => j = k \/ obs[j].id = NoID
  <2>1. \A j, k \in 1..n : observations[j].id = observations[k].id => j = k \/ observations[j].id = NoID
    BY <1>2, <1>7 DEF ScannedTo
  <2>2. \A j \in 1..n : obs[j].id = obs[n + 1].id => obs[j].id = NoID
    BY <1>4, <1>7, <1>13, <1>15
  <2> QED
    BY <1>7, <1>8, <2>1, <2>2
<1>17. ASSUME NEW i \in DOMAIN input, i < e + 1
       PROVE  InToolBlock(input, i) \/ (input[i].role # "tool" /\ input[i].results = << >>)
  <2>1. i \in Nat
    BY <1>2
  <2>2. CASE i < index
    BY <1>2, <2>2 DEF ScannedTo
  <2>3. CASE i = index
    BY <1>3, <2>3
  <2>4. CASE index < i
    <3>1. i \in index + 1..e
      BY <1>2, <1>6, <1>17, <2>1, <2>4
    <3>2. input[i].role = "tool" /\ index < i /\ i <= e
      BY <1>2, <1>6, <3>1
    <3> QED
      BY <1>3, <3>2 DEF InToolBlock, e
  <2> QED
    BY <1>2, <2>1, <2>2, <2>3, <2>4
<1>19. ScannedTo(index)'
  <2>1. \A k \in DOMAIN obs : RoundOK(obs[k]) /\ obs[k].end < e + 1
    BY <1>7, <1>10
  <2>2. \A j, k \in DOMAIN obs : j < k => obs[j].end < obs[k].start
    BY <1>7, <1>11
  <2>3. \A s \in Opens(input) : s < e + 1 => \E k \in DOMAIN obs : obs[k].start = s
    BY <1>7, <1>12
  <2>4. \A j, k \in DOMAIN obs : obs[j].id = obs[k].id => j = k \/ obs[j].id = NoID
    BY <1>7, <1>16
  <2>5. \A i \in DOMAIN input : i < e + 1 => InToolBlock(input, i) \/ (input[i].role # "tool" /\ input[i].results = << >>)
    BY <1>17
  <2> QED
    BY <1>1, <2>1, <2>2, <2>3, <2>4, <2>5 DEF ScannedTo, RoundOK, Conflict, Observation
<1>20. ScanOK'
  <2>1. (index \in 1..Len(input) + 1)'
    BY <1>1, <1>2, <1>6
  <2>2. IsSequence(observations)'
    BY <1>1, <1>7 DEF IsSequence
  <2>3. (seen = {observations[k].id : k \in DOMAIN observations})'
    BY <1>1, <1>7, <1>14
  <2>4. (answer # "repaired" /\ answer # "invalid round")'
    BY <1>1, <1>2 DEF Inv
  <2> QED
    BY <1>1, <1>2, <1>19, <2>1, <2>2, <2>3, <2>4 DEF ScanOK
<1>21. CopyOK'
  BY <1>1, <1>2 DEF Inv, CopyOK
<1> QED
  BY <1>1, <1>20, <1>21 DEF Inv

\* At the end of the history every round has been observed.
LEMMA EndScanInv ==
    ASSUME Inv, EndScan
    PROVE  Inv'
<1>1. pc = "scan" /\ index > Len(input)
  BY DEF EndScan
<1>2. \/ Answer("unknown state")
      \/ pc' = "decide" /\ UNCHANGED <<input, declared, decisions, index, observations, seen, cursor, out, usedIDs, answer>>
  BY DEF EndScan
<1>3. CASE Answer("unknown state")
  BY <1>3, AnswerInv
<1>4. CASE pc' = "decide" /\ UNCHANGED <<input, declared, decisions, index, observations, seen, cursor, out, usedIDs, answer>>
  <2>1. index \in 1..Len(input) + 1 /\ ScannedTo(index) /\ Len(input) \in Nat
    BY <1>1, InputSequence DEF Inv, ScanOK
  <2>2. index = Len(input) + 1
    BY <1>1, <2>1
  <2>3. ScannedTo(Len(input) + 1)
    BY <2>1, <2>2
  <2>4. ScannedTo(Len(input) + 1)'
    BY <1>4, <2>3 DEF ScannedTo, RoundOK, Conflict, Observation
  <2>5. ScanOK'
    BY <1>1, <1>4, <2>4 DEF Inv, ScanOK, IsSequence
  <2>6. CopyOK'
    BY <1>1, <1>4 DEF Inv, CopyOK
  <2> QED
    BY <1>1, <1>4, <2>5, <2>6 DEF Inv
<1> QED
  BY <1>2, <1>3, <1>4

\* Functions on an interval from one are sequences.
LEMMA SequenceOf ==
    ASSUME NEW R, NEW n \in Nat, NEW s \in [1..n -> R]
    PROVE  s \in Seq(R) /\ Len(s) = n
<1>1. s \in Seq(R)
  OBVIOUS
<1> QED
  BY <1>1, LenProperties

\* The elements of two sequences behind each other.
LEMMA ConcatElements ==
    ASSUME NEW R, NEW s \in Seq(R), NEW t \in Seq(R)
    PROVE  /\ s \o t \in Seq(R) /\ Len(s \o t) = Len(s) + Len(t)
           /\ \A k \in 1..Len(s) : (s \o t)[k] = s[k]
           /\ \A k \in 1..Len(t) : (s \o t)[Len(s) + k] = t[k]
OBVIOUS

-----------------------------------------------------------------------------
(* Where the messages stand in the projection *)

\* Which rounds among one more are repaired.
LEMMA RepairedMore ==
    ASSUME NEW n \in Nat, NEW i
    PROVE  Repaired(n + 1, i) <=> Repaired(n, i) \/ (IsInterrupted(n + 1) /\ observations[n + 1].end = i)
<1>1. \A j \in 1..n + 1 : j \in 1..n \/ j = n + 1
  OBVIOUS
<1>2. n + 1 \in 1..n + 1 /\ 1..n \subseteq 1..n + 1
  OBVIOUS
<1> QED
  BY <1>1, <1>2 DEF Repaired

\* A round that is not repaired leaves the places as they are.
LEMMA PlacedSkip ==
    ASSUME NEW n \in Nat, NEW P, NEW c, NEW o, Placed(P, n, c, o), ~IsInterrupted(n + 1)
    PROVE  Placed(P, n + 1, c, o)
<1>1. \A i : Repaired(n + 1, i) <=> Repaired(n, i)
  BY RepairedMore
<1>2. \A j \in 1..n + 1 : IsInterrupted(j) => j \in 1..n
  <2>1. \A j \in 1..n + 1 : j \in 1..n \/ j = n + 1
    OBVIOUS
  <2> QED
    BY <2>1
<1>3. 1..n \subseteq 1..n + 1
  OBVIOUS
<1> QED
  BY <1>1, <1>2, <1>3 DEF Placed

\* What is copied as it is comes behind.
LEMMA PlacedCopy ==
    ASSUME NEW R, input \in Seq(R), NEW o \in Seq(R), NEW n \in Nat,
           NEW c \in 0..Len(input), NEW e \in c..Len(input), NEW P, Placed(P, n, c, o),
           \A j \in 1..n : IsInterrupted(j) => observations[j].end \in 1..c
    PROVE  \E Q : Placed(Q, n, e, o \o SubSeq(input, c + 1, e))
<1> DEFINE t == SubSeq(input, c + 1, e)
           u == o \o t
           m == Len(o)
           Q == [i \in 1..e |-> IF i <= c THEN P[i] ELSE m + (i - c)]
<1>1. m \in Nat /\ Len(input) \in Nat /\ c \in Nat /\ e \in Nat /\ c <= e /\ e <= Len(input)
  BY LenProperties
<1>2. /\ t \in Seq(R) /\ Len(t) = e - c /\ \A k \in 1..e - c : t[k] = input[c + k]
  <2>1. c + 1 \in Int /\ e \in Int /\ \A k \in c + 1..e : k \in 1..Len(input)
    BY <1>1
  <2>2. Len(input) \in Nat /\ \A k \in 1..Len(input) : input[k] \in R
    BY <1>1, ElementOfSeq
  <2>3. t = [k \in 1..e - c |-> input[c + k]]
    BY <1>1 DEF SubSeq
  <2>4. \A k \in 1..e - c : c + k \in 1..Len(input)
    BY <1>1
  <2>5. e - c \in Nat
    BY <1>1
  <2> HIDE DEF t
  <2>6. t \in [1..e - c -> R]
    BY <2>2, <2>3, <2>4
  <2>7. t \in Seq(R) /\ Len(t) = e - c
    BY <2>5, <2>6, SequenceOf
  <2> QED
    BY <2>3, <2>7
<1> HIDE DEF t
<1>3. /\ Len(u) = m + (e - c)
      /\ \A k \in 1..m : u[k] = o[k]
      /\ \A k \in 1..e - c : u[m + k] = input[c + k]
  <2> HIDE DEF Q
  <2>0. t \in Seq(R) /\ o \in Seq(R)
    BY <1>2
  <2>1. /\ Len(u) = m + Len(t)
        /\ \A k \in 1..m : u[k] = o[k]
        /\ \A k \in 1..Len(t) : u[m + k] = t[k]
    BY ONLY <2>0, ConcatElements
  <2> QED
    BY <1>2, <2>1
<1> HIDE DEF u
<1>4. /\ P \in [1..c -> 1..m]
      /\ \A i \in 1..c : o[P[i]] = input[i]
      /\ \A i, j \in 1..c : i < j => P[i] < P[j]
      /\ \A i, j \in 1..c : j = i + 1 => P[j] = P[i] + (IF Repaired(n, i) THEN 2 ELSE 1)
      /\ m = IF c = 0 THEN 0 ELSE P[c] + (IF Repaired(n, c) THEN 1 ELSE 0)
      /\ \A j \in 1..n : IsInterrupted(j) =>
           /\ P[observations[j].end] + 1 \in 1..m
           /\ o[P[observations[j].end] + 1] = SyntheticMessage(input, observations[j])
      /\ \A q \in 1..m : \/ \E i \in 1..c : q = P[i]
                         \/ \E j \in 1..n : IsInterrupted(j) /\ q = P[observations[j].end] + 1
  BY DEF Placed
<1>5. \A i : i > c => ~Repaired(n, i)
  <2> SUFFICES ASSUME NEW i, i > c, NEW j \in 1..n, IsInterrupted(j), observations[j].end = i
               PROVE  FALSE
    BY DEF Repaired
  <2>1. i \in 1..c
    OBVIOUS
  <2> QED
    BY <1>1, <2>1
<1> HIDE DEF m
<1>6. \A i \in 1..e : /\ i <= c => i \in 1..c /\ Q[i] = P[i] /\ P[i] \in 1..m
                      /\ ~(i <= c) => Q[i] = m + (i - c) /\ i - c \in 1..e - c
  BY <1>1, <1>4
<1>7. Q \in [1..e -> 1..Len(u)]
  <2>1. Q = [i \in 1..e |-> Q[i]]
    OBVIOUS
  <2>2. \A i \in 1..e : Q[i] \in 1..Len(u)
    <3> TAKE i \in 1..e
    <3> HIDE DEF Q
    <3>1. CASE i <= c
      <4>1. Q[i] \in 1..m
        BY <1>6, <3>1
      <4>2. m <= Len(u) /\ Len(u) \in Nat
        BY <1>1, <1>3
      <4> QED
        BY <1>1, <4>1, <4>2
    <3>2. CASE ~(i <= c)
      BY <1>1, <1>3, <1>6, <3>2
    <3> QED
      BY <3>1, <3>2
  <2> HIDE DEF Q
  <2> QED
    BY <2>1, <2>2
<1> HIDE DEF Q
<1>8. \A i \in 1..e : u[Q[i]] = input[i]
  <2> TAKE i \in 1..e
  <2>1. CASE i <= c
    BY <1>3, <1>4, <1>6, <2>1
  <2>2. CASE ~(i <= c)
    <3>1. Q[i] = m + (i - c) /\ i - c \in 1..e - c /\ c + (i - c) = i
      BY <1>1, <1>6, <2>2
    <3> QED
      BY <1>3, <3>1
  <2> QED
    BY <2>1, <2>2
<1>9. \A i, j \in 1..e : i < j => Q[i] < Q[j]
  <2> SUFFICES ASSUME NEW i \in 1..e, NEW j \in 1..e, i < j
               PROVE  Q[i] < Q[j]
    OBVIOUS
  <2>1. CASE j <= c
    <3>1. i <= c
      BY <1>1, <2>1
    <3> QED
      BY <1>4, <1>6, <2>1, <3>1
  <2>2. CASE ~(j <= c) /\ i <= c
    BY <1>1, <1>6, <2>2
  <2>3. CASE ~(j <= c) /\ ~(i <= c)
    BY <1>1, <1>6, <2>3
  <2> QED
    BY <2>1, <2>2, <2>3
<1>10. \A i, j \in 1..e : j = i + 1 => Q[j] = Q[i] + (IF Repaired(n, i) THEN 2 ELSE 1)
  <2> SUFFICES ASSUME NEW i \in 1..e, NEW j \in 1..e, j = i + 1
               PROVE  Q[j] = Q[i] + (IF Repaired(n, i) THEN 2 ELSE 1)
    OBVIOUS
  <2>1. CASE j <= c
    <3>1. i <= c
      BY <1>1, <2>1
    <3>2. i \in 1..c /\ j \in 1..c /\ Q[i] = P[i] /\ Q[j] = P[j]
      BY <1>6, <2>1, <3>1
    <3> QED
      BY <1>4, <3>2
  <2>2. CASE i = c
    <3>1. Q[i] = P[c] /\ P[c] \in 1..m /\ Q[j] = m + 1 /\ c # 0
      BY <1>1, <1>6, <2>2
    <3>2. m = P[c] + (IF Repaired(n, c) THEN 1 ELSE 0)
      BY <1>4, <3>1
    <3> QED
      BY <1>1, <2>2, <3>1, <3>2
  <2>3. CASE i > c
    <3>1. ~Repaired(n, i)
      BY <1>5, <2>3
    <3>2. Q[i] = m + (i - c) /\ Q[j] = m + (j - c)
      BY <1>1, <1>6, <2>3
    <3> QED
      BY <1>1, <3>1, <3>2
  <2> QED
    BY <1>1, <2>1, <2>2, <2>3
<1>11. Len(u) = IF e = 0 THEN 0 ELSE Q[e] + (IF Repaired(n, e) THEN 1 ELSE 0)
  <2>1. CASE e = c
    <3>1. Len(u) = m
      BY <1>1, <1>3, <2>1
    <3>2. e # 0 => Q[e] = P[c]
      BY <1>1, <1>6, <2>1
    <3> QED
      BY <1>4, <2>1, <3>1, <3>2
  <2>2. CASE e > c
    <3>1. ~Repaired(n, e) /\ e # 0
      BY <1>1, <1>5, <2>2
    <3>2. Q[e] = m + (e - c)
      BY <1>1, <1>6, <2>2
    <3> QED
      BY <1>1, <1>3, <3>1, <3>2
  <2> QED
    BY <1>1, <2>1, <2>2
<1>12. \A j \in 1..n : IsInterrupted(j) => Q[observations[j].end] = P[observations[j].end] /\ P[observations[j].end] \in 1..m
  <2> SUFFICES ASSUME NEW j \in 1..n, IsInterrupted(j)
               PROVE  Q[observations[j].end] = P[observations[j].end] /\ P[observations[j].end] \in 1..m
    OBVIOUS
  <2>1. observations[j].end \in 1..c
    OBVIOUS
  <2>2. observations[j].end \in 1..e /\ observations[j].end <= c
    BY <1>1, <2>1
  <2> QED
    BY <1>6, <2>2
<1>13. \A j \in 1..n : IsInterrupted(j) =>
         /\ Q[observations[j].end] + 1 \in 1..Len(u)
         /\ u[Q[observations[j].end] + 1] = SyntheticMessage(input, observations[j])
  <2> SUFFICES ASSUME NEW j \in 1..n, IsInterrupted(j)
               PROVE  /\ Q[observations[j].end] + 1 \in 1..Len(u)
                      /\ u[Q[observations[j].end] + 1] = SyntheticMessage(input, observations[j])
    OBVIOUS
  <2>1. Q[observations[j].end] = P[observations[j].end] /\ P[observations[j].end] + 1 \in 1..m
        /\ o[P[observations[j].end] + 1] = SyntheticMessage(input, observations[j])
    BY <1>4, <1>12
  <2>2. 1..m \subseteq 1..Len(u)
    BY <1>1, <1>3
  <2> QED
    BY <1>3, <2>1, <2>2
<1>14. ASSUME NEW q \in 1..Len(u)
       PROVE  \/ \E i \in 1..e : q = Q[i]
              \/ \E j \in 1..n : IsInterrupted(j) /\ q = Q[observations[j].end] + 1
  <2>1. CASE q \in 1..m
    <3>1. CASE \E i \in 1..c : q = P[i]
      <4>1. PICK i \in 1..c : q = P[i]
        BY <3>1
      <4>2. i \in 1..e /\ i <= c
        BY <1>1
      <4> QED
        BY <1>6, <4>1, <4>2
    <3>2. CASE \E j \in 1..n : IsInterrupted(j) /\ q = P[observations[j].end] + 1
      BY <1>12, <3>2
    <3> QED
      BY <1>4, <2>1, <3>1, <3>2
  <2>2. CASE q \notin 1..m
    <3> DEFINE i == q - m + c
    <3>1. q > m /\ q <= m + (e - c) /\ q \in Nat
      BY <1>1, <1>3, <2>2
    <3>2. i \in 1..e /\ ~(i <= c) /\ m + (i - c) = q
      BY <1>1, <3>1
    <3> QED
      BY <1>6, <3>2
  <2> QED
    BY <2>1, <2>2
<1>15. Placed(Q, n, e, u)
  BY <1>7, <1>8, <1>9, <1>10, <1>11, <1>13, <1>14 DEF Placed
<1> QED
  BY <1>15 DEF u, t

\* The synthetic message of a round comes right behind it.
LEMMA PlacedSynthetic ==
    ASSUME NEW R, NEW o \in Seq(R), NEW n \in Nat, NEW c \in Nat, c # 0, NEW P, Placed(P, n, c, o),
           IsInterrupted(n + 1), observations[n + 1].end = c,
           \A j \in 1..n : IsInterrupted(j) => observations[j].end \in 1..c /\ observations[j].end < c
    PROVE  Placed(P, n + 1, c, o \o <<SyntheticMessage(input, observations[n + 1])>>)
<1> DEFINE x == SyntheticMessage(input, observations[n + 1])
           u == o \o <<x>>
           m == Len(o)
<1>1. m \in Nat
  BY LenProperties
<1>2. /\ Len(u) = m + 1 /\ \A k \in 1..m : u[k] = o[k]
      /\ u[m + 1] = x
  OBVIOUS
<1> HIDE DEF u, x
<1>3. /\ P \in [1..c -> 1..m]
      /\ \A i \in 1..c : o[P[i]] = input[i]
      /\ \A i, j \in 1..c : i < j => P[i] < P[j]
      /\ \A i, j \in 1..c : j = i + 1 => P[j] = P[i] + (IF Repaired(n, i) THEN 2 ELSE 1)
      /\ m = P[c] + (IF Repaired(n, c) THEN 1 ELSE 0)
      /\ \A j \in 1..n : IsInterrupted(j) =>
           /\ P[observations[j].end] + 1 \in 1..m
           /\ o[P[observations[j].end] + 1] = SyntheticMessage(input, observations[j])
      /\ \A q \in 1..m : \/ \E i \in 1..c : q = P[i]
                         \/ \E j \in 1..n : IsInterrupted(j) /\ q = P[observations[j].end] + 1
  BY DEF Placed
<1> HIDE DEF m
<1>4. ~Repaired(n, c)
  BY DEF Repaired
<1>5. m = P[c] /\ c \in 1..c
  <2>1. P[c] \in 1..m /\ c \in 1..c
    BY <1>3
  <2> QED
    BY <1>3, <1>4, <2>1
<1>6. Repaired(n + 1, c) /\ \A i \in 1..c : i # c => (Repaired(n + 1, i) <=> Repaired(n, i))
  BY RepairedMore
<1>7. P \in [1..c -> 1..Len(u)] /\ \A i \in 1..c : u[P[i]] = input[i]
  <2>1. 1..m \subseteq 1..Len(u)
    BY <1>1, <1>2
  <2> QED
    BY <1>2, <1>3, <2>1
<1>8. \A i, j \in 1..c : j = i + 1 => P[j] = P[i] + (IF Repaired(n + 1, i) THEN 2 ELSE 1)
  BY <1>3, <1>6
<1>9. Len(u) = P[c] + (IF Repaired(n + 1, c) THEN 1 ELSE 0)
  BY <1>2, <1>5, <1>6
<1>10. \A j \in 1..n + 1 : j \in 1..n \/ j = n + 1
  OBVIOUS
<1>11. \A j \in 1..n + 1 : IsInterrupted(j) =>
         /\ P[observations[j].end] + 1 \in 1..Len(u)
         /\ u[P[observations[j].end] + 1] = SyntheticMessage(input, observations[j])
  <2> SUFFICES ASSUME NEW j \in 1..n + 1, IsInterrupted(j)
               PROVE  /\ P[observations[j].end] + 1 \in 1..Len(u)
                      /\ u[P[observations[j].end] + 1] = SyntheticMessage(input, observations[j])
    OBVIOUS
  <2>1. CASE j \in 1..n
    <3>1. 1..m \subseteq 1..Len(u)
      BY <1>1, <1>2
    <3> QED
      BY <1>2, <1>3, <2>1, <3>1
  <2>2. CASE j = n + 1
    BY <1>1, <1>2, <1>5, <2>2 DEF x
  <2> QED
    BY <1>10, <2>1, <2>2
<1>12. ASSUME NEW q \in 1..Len(u)
       PROVE  \/ \E i \in 1..c : q = P[i]
              \/ \E j \in 1..n + 1 : IsInterrupted(j) /\ q = P[observations[j].end] + 1
  <2>1. CASE q \in 1..m
    <3>1. 1..n \subseteq 1..n + 1
      OBVIOUS
    <3> QED
      BY <1>3, <2>1, <3>1
  <2>2. CASE q = m + 1
    <3>1. n + 1 \in 1..n + 1
      OBVIOUS
    <3> QED
      BY <1>5, <2>2, <3>1
  <2> QED
    BY <1>1, <1>2, <2>1, <2>2
<1>13. Placed(P, n + 1, c, u)
  BY <1>3, <1>7, <1>8, <1>9, <1>11, <1>12 DEF Placed
<1> QED
  BY <1>13 DEF u, x

-----------------------------------------------------------------------------
(* The copy *)

\* A prefix and what follows it up to e are a longer prefix.
LEMMA SubSeqOf ==
    ASSUME NEW R, NEW s \in Seq(R), NEW c \in 0..Len(s), NEW e \in c..Len(s)
    PROVE  /\ SubSeq(s, c + 1, e) \in Seq(R)
           /\ SubSeq(s, 1, c) \o SubSeq(s, c + 1, e) = SubSeq(s, 1, e)
<1> DEFINE a == SubSeq(s, 1, c)
           b == SubSeq(s, c + 1, e)
           d == SubSeq(s, 1, e)
<1>1. Len(s) \in Nat /\ c \in Nat /\ e \in Nat /\ c <= e /\ e <= Len(s) /\ \A k \in 1..Len(s) : s[k] \in R
  BY LenProperties, ElementOfSeq
<1>2. a \in [1..c -> R] /\ \A k \in 1..c : a[k] = s[k]
  <2>1. a = [k \in 1..c |-> s[1 + k - 1]]
    BY <1>1 DEF SubSeq
  <2>2. \A k \in 1..c : k \in 1..Len(s) /\ 1 + k - 1 = k
    BY <1>1
  <2> QED
    BY <1>1, <2>1, <2>2
<1>3. b \in [1..e - c -> R] /\ \A k \in 1..e - c : b[k] = s[c + k]
  <2>1. b = [k \in 1..e - c |-> s[c + k]]
    BY <1>1 DEF SubSeq
  <2>2. \A k \in 1..e - c : c + k \in 1..Len(s)
    BY <1>1
  <2> QED
    BY <1>1, <2>1, <2>2
<1>4. d \in [1..e -> R] /\ \A k \in 1..e : d[k] = s[k]
  <2>1. d = [k \in 1..e |-> s[1 + k - 1]]
    BY <1>1 DEF SubSeq
  <2>2. \A k \in 1..e : k \in 1..Len(s) /\ 1 + k - 1 = k
    BY <1>1
  <2> QED
    BY <1>1, <2>1, <2>2
<1> HIDE DEF a, b, d
<1>5. e - c \in Nat
  BY <1>1
<1>6. a \in Seq(R) /\ Len(a) = c /\ b \in Seq(R) /\ Len(b) = e - c /\ d \in Seq(R) /\ Len(d) = e
  BY <1>1, <1>2, <1>3, <1>4, <1>5, SequenceOf
<1>7. /\ a \o b \in Seq(R) /\ Len(a \o b) = Len(a) + Len(b)
      /\ \A k \in 1..Len(a) : (a \o b)[k] = a[k]
      /\ \A k \in 1..Len(b) : (a \o b)[Len(a) + k] = b[k]
  <2>1. a \in Seq(R) /\ b \in Seq(R)
    BY <1>6
  <2> QED
    BY ONLY <2>1, ConcatElements
<1>8. \A k \in 1..e : (a \o b)[k] = d[k]
  <2> TAKE k \in 1..e
  <2>0. d[k] = s[k]
    BY <1>4
  <2>1. CASE k <= c
    <3>1. k \in 1..c
      BY <1>1, <2>1
    <3>2. (a \o b)[k] = a[k] /\ a[k] = s[k]
      BY <1>2, <1>6, <1>7, <3>1
    <3> QED
      BY <2>0, <3>2
  <2>2. CASE k > c
    <3> DEFINE i == k - c
    <3>1. i \in 1..e - c /\ c + i = k
      BY <1>1, <2>2
    <3> HIDE DEF i
    <3>2. (a \o b)[c + i] = b[i] /\ b[i] = s[c + i]
      BY <1>3, <1>6, <1>7, <3>1
    <3> QED
      BY <2>0, <3>1, <3>2
  <2>3. k <= c \/ k > c
    BY <1>1
  <2> QED
    BY ONLY <2>1, <2>2, <2>3
<1>9. Len(a \o b) = e
  BY <1>1, <1>6, <1>7
<1>10. a \o b = d
  BY <1>6, <1>7, <1>8, <1>9, SeqEqual
<1> QED
  BY <1>6, <1>10 DEF a, b, d

\* What a copy needs to know of the scan.
Scanned ==
    /\ IsSequence(input)
    /\ Len(input) \in Nat
    /\ \A k \in 1..Len(observations) :
         /\ RoundOK(observations[k])
         /\ observations[k].start \in 1..observations[k].end
         /\ observations[k].end \in 1..Len(input)
    /\ \A j, k \in 1..Len(observations) : j < k => observations[j].end < observations[k].start

\* A finished scan gives the copy what it needs.
LEMMA ScannedOnce ==
    ASSUME Inv, ScannedTo(Len(input) + 1)
    PROVE  Scanned /\ Len(observations) \in Nat /\ DOMAIN observations = 1..Len(observations)
<1>1. IsSequence(input) /\ Len(input) \in Nat /\ DOMAIN input = 1..Len(input)
  BY InputSequence
<1>2. Len(observations) \in Nat /\ DOMAIN observations = 1..Len(observations)
  BY SequenceDomain DEF Inv, ScanOK
<1>3. ASSUME NEW k \in 1..Len(observations)
      PROVE  /\ RoundOK(observations[k])
             /\ observations[k].start \in 1..observations[k].end
             /\ observations[k].end \in 1..Len(input)
  <2>1. RoundOK(observations[k])
    BY <1>2 DEF ScannedTo
  <2>2. /\ observations[k].start \in DOMAIN input /\ observations[k].start \in Nat /\ observations[k].end \in Nat
        /\ observations[k].end \in observations[k].start..Len(input)
    BY <2>1, RoundEnds
  <2> QED
    BY <1>1, <2>1, <2>2
<1>4. \A j, k \in 1..Len(observations) : j < k => observations[j].end < observations[k].start
  BY <1>2 DEF ScannedTo
<1> QED
  BY <1>1, <1>2, <1>3, <1>4 DEF Scanned

\* More messages are copied as they are.
LEMMA CopiedMore ==
    ASSUME Scanned, NEW n, NEW c, NEW o, CopiedTo(n, c, o), NEW e \in c..Len(input)
    PROVE  CopiedTo(n, e, o \o SubSeq(input, c + 1, e))
<1> DEFINE R == Range(input) \cup Range(o)
           t == SubSeq(input, c + 1, e)
           u == o \o t
<1>1. /\ c \in 0..Len(input) /\ c \in Nat /\ e \in Nat /\ e \in 0..Len(input) /\ Len(input) \in Nat
      /\ n \in 0..Len(observations) /\ n \in Nat
  BY DEF CopiedTo, Scanned
<1>2. input \in Seq(R) /\ o \in Seq(R)
  BY DEF CopiedTo, Scanned, IsSequence
<1>3. Range(input) = Elements(input)
  BY DEF Range, Elements
<1>4. input \in Seq(Elements(input))
  BY <1>3 DEF Scanned, IsSequence
<1>5. t \in Seq(R) /\ t \in Seq(Elements(input)) /\ SubSeq(input, 1, c) \o t = SubSeq(input, 1, e)
  BY <1>1, <1>2, <1>4, SubSeqOf
<1>6. PICK P : Placed(P, n, c, o)
  BY DEF CopiedTo
<1>7. \A j \in 1..n : observations[j].end \in 1..c /\ observations[j].end <= e
  <2> TAKE j \in 1..n
  <2>1. j \in 1..Len(observations) /\ observations[j].end <= c
    BY <1>1 DEF CopiedTo
  <2>2. observations[j].end \in 1..Len(input)
    BY <2>1 DEF Scanned
  <2> QED
    BY <1>1, <2>1, <2>2
<1>8. \E Q : Placed(Q, n, e, u)
  BY <1>1, <1>2, <1>6, <1>7, PlacedCopy
<1>9. IsSequence(u)
  <2>1. u \in Seq(R)
    BY <1>2, <1>5, ConcatProperties
  <2> QED
    BY <2>1, SeqOfRange DEF IsSequence
<1>10. Kept(u, Elements(input)) = SubSeq(input, 1, e)
  <2>1. Kept(u, Elements(input)) = Kept(o, Elements(input)) \o Kept(t, Elements(input))
    <3>1. o \in Seq(R) /\ t \in Seq(R)
      BY <1>2, <1>5
    <3> HIDE DEF R, t
    <3>2. Kept(o \o t, Elements(input)) = Kept(o, Elements(input)) \o Kept(t, Elements(input))
      BY ONLY <3>1, KeptConcat
    <3> QED
      BY <3>2
  <2>2. Kept(t, Elements(input)) = t
    BY <1>5, KeptAll
  <2>3. Kept(o, Elements(input)) = SubSeq(input, 1, c)
    BY DEF CopiedTo
  <2> QED
    BY <1>5, <2>1, <2>2, <2>3
<1> HIDE DEF u, t
<1>11. CopiedTo(n, e, u)
  BY <1>1, <1>7, <1>8, <1>9, <1>10 DEF CopiedTo
<1> QED
  BY <1>11 DEF u, t

\* A round that was copied and needs no repair.
LEMMA CopiedRound ==
    ASSUME NEW n, NEW c, NEW o, CopiedTo(n, c, o), n + 1 \in 1..Len(observations), Len(observations) \in Nat,
           observations[n + 1].end = c, ~IsInterrupted(n + 1)
    PROVE  CopiedTo(n + 1, c, o)
<1>1. n \in Nat /\ n + 1 \in 0..Len(observations) /\ c \in Nat /\ \A j \in 1..n + 1 : j \in 1..n \/ j = n + 1
  BY DEF CopiedTo
<1>2. PICK P : Placed(P, n, c, o)
  BY DEF CopiedTo
<1>3. Placed(P, n + 1, c, o)
  BY <1>1, <1>2, PlacedSkip
<1>4. \A j \in 1..n + 1 : observations[j].end <= c
  BY <1>1 DEF CopiedTo
<1>5. \A j \in 1..n + 1 : IsInterrupted(j) => SyntheticMessage(input, observations[j]) \notin Elements(input)
  BY <1>1 DEF CopiedTo
<1> QED
  BY <1>1, <1>3, <1>4, <1>5 DEF CopiedTo

\* A round that was copied and gets its synthetic message.
LEMMA CopiedRepair ==
    ASSUME Scanned, NEW n, NEW c, NEW o, CopiedTo(n, c, o), n + 1 \in 1..Len(observations), Len(observations) \in Nat,
           observations[n + 1].end = c, IsInterrupted(n + 1),
           SyntheticMessage(input, observations[n + 1]) \notin Elements(input)
    PROVE  CopiedTo(n + 1, c, o \o <<SyntheticMessage(input, observations[n + 1])>>)
<1> DEFINE x == SyntheticMessage(input, observations[n + 1])
           R == Range(o) \cup {x}
           u == o \o <<x>>
<1>1. n \in Nat /\ n + 1 \in 0..Len(observations) /\ c \in Nat /\ \A j \in 1..n + 1 : j \in 1..n \/ j = n + 1
  BY DEF CopiedTo
<1>2. PICK P : Placed(P, n, c, o)
  BY DEF CopiedTo
<1>3. o \in Seq(R) /\ x \in R /\ <<x>> \in Seq(R)
  BY DEF CopiedTo, IsSequence
<1>4. observations[n + 1].start \in 1..c /\ c # 0
  <2>1. observations[n + 1].start \in 1..observations[n + 1].end /\ observations[n + 1].end \in 1..Len(input)
    BY DEF Scanned
  <2> QED
    BY <2>1
<1>5. \A j \in 1..n : observations[j].end \in 1..c /\ observations[j].end < c
  <2> TAKE j \in 1..n
  <2>1. j \in 1..Len(observations) /\ j < n + 1 /\ observations[j].end <= c
    BY <1>1 DEF CopiedTo
  <2>2. observations[j].end < observations[n + 1].start /\ observations[j].end \in 1..Len(input)
    BY <2>1 DEF Scanned
  <2> QED
    BY <1>1, <1>4, <2>1, <2>2
<1>6. Placed(P, n + 1, c, u)
  BY <1>1, <1>2, <1>3, <1>4, <1>5, PlacedSynthetic
<1>7. IsSequence(u)
  <2>1. u \in Seq(R)
    BY <1>3, ConcatProperties
  <2> QED
    BY <2>1, SeqOfRange DEF IsSequence
<1>8. Kept(u, Elements(input)) = Kept(o, Elements(input))
  <2>1. o \in Seq(R) /\ x \in R /\ x \notin Elements(input)
    BY <1>3
  <2> HIDE DEF R, x
  <2>2. u = Append(o, x)
    BY <2>1, AppendProperties
  <2>3. Kept(Append(o, x), Elements(input)) = Kept(o, Elements(input))
    BY ONLY <2>1, KeptAppend
  <2> QED
    BY <2>2, <2>3
<1>9. \A j \in 1..n + 1 : observations[j].end <= c
  BY <1>1 DEF CopiedTo
<1>10. \A j \in 1..n + 1 : IsInterrupted(j) => SyntheticMessage(input, observations[j]) \notin Elements(input)
  BY <1>1 DEF CopiedTo
<1> HIDE DEF u
<1>11. CopiedTo(n + 1, c, u)
  BY <1>1, <1>6, <1>7, <1>8, <1>9, <1>10 DEF CopiedTo
<1> QED
  BY <1>11 DEF u, x

\* Before the copy nothing is copied.
LEMMA NothingCopied ==
    ASSUME Scanned, Len(observations) \in Nat
    PROVE  CopiedTo(0, 0, << >>)
<1> DEFINE P == [i \in 1..0 |-> 1]
<1>1. Len(input) \in Nat
  BY DEF Scanned
<1>2. 1..0 = {} /\ Len(<< >>) = 0 /\ IsSequence(<< >>)
  BY EmptySeq DEF IsSequence
<1>3. Placed(P, 0, 0, << >>)
  <2>1. P \in [1..0 -> 1..Len(<< >>)]
    BY <1>2
  <2> HIDE DEF P
  <2> QED
    BY <1>2, <2>1 DEF Placed
<1>4. Kept(<< >>, Elements(input)) = << >>
  BY KeptEmpty
<1>5. SubSeq(input, 1, 0) = << >>
  <2>1. SubSeq(input, 1, 0) = [k \in 1..0 |-> input[1 + k - 1]]
    BY DEF SubSeq
  <2>2. SubSeq(input, 1, 0) = [k \in {} |-> input[1 + k - 1]]
    BY <1>2, <2>1
  <2>3. << >> = [k \in {} |-> input[1 + k - 1]]
    OBVIOUS
  <2> QED
    BY <2>2, <2>3
<1> HIDE DEF P
<1>6. 0 \in 0..Len(input) /\ 0 \in 0..Len(observations)
  BY <1>1
<1>7. \A j : j \notin 1..0
  OBVIOUS
<1>8. \E Q : Placed(Q, 0, 0, << >>)
  BY <1>3
<1>9. Kept(<< >>, Elements(input)) = SubSeq(input, 1, 0)
  BY <1>4, <1>5
<1> QED
  BY <1>2, <1>6, <1>7, <1>8, <1>9 DEF CopiedTo

\* The copy starts when the decisions match the interrupted rounds.
LEMMA DecideInv ==
    ASSUME Inv, Decide
    PROVE  Inv'
<1>1. pc = "decide" /\ ScannedTo(Len(input) + 1) /\ cursor = 0 /\ out = << >> /\ answer = "none"
  BY DEF Decide, Inv, ScanOK, CopyOK
<1>2. \/ Answer("invalid repair")
      \/ /\ DecisionsMatch /\ pc' = "copy" /\ index' = 1 /\ usedIDs' = {input[i].id : i \in DOMAIN input}
         /\ UNCHANGED <<input, declared, decisions, observations, seen, cursor, out, answer>>
  BY DEF Decide
<1>3. CASE Answer("invalid repair")
  BY <1>3, AnswerInv
<1>4. CASE /\ DecisionsMatch /\ pc' = "copy" /\ index' = 1 /\ usedIDs' = {input[i].id : i \in DOMAIN input}
           /\ UNCHANGED <<input, declared, decisions, observations, seen, cursor, out, answer>>
  <2>1. Scanned /\ Len(observations) \in Nat
    BY <1>1, ScannedOnce
  <2>2. CopiedTo(0, 0, << >>)
    BY <2>1, NothingCopied
  <2>3. CopiedTo(index - 1, cursor, out)'
    <3>1. CopiedTo(0, 0, << >>)'
      BY <1>4, <2>2 DEF CopiedTo, Placed, Repaired, IsInterrupted
    <3>2. index' - 1 = 0 /\ cursor' = 0 /\ out' = << >>
      BY <1>1, <1>4
    <3> QED
      BY <3>1, <3>2
  <2>4. (index \in 1..Len(observations) + 1)'
    BY <1>4, <2>1
  <2>5. DecisionsMatch'
    BY <1>4 DEF DecisionsMatch, Interrupted
  <2>6. CopyOK'
    BY <1>1, <1>4, <2>3, <2>4, <2>5 DEF CopyOK
  <2>7. ScannedTo(Len(input) + 1)'
    BY <1>1, <1>4 DEF ScannedTo, RoundOK, Conflict, Observation
  <2>8. ScanOK'
    BY <1>1, <1>4, <2>7 DEF Inv, ScanOK, IsSequence
  <2> QED
    BY <1>1, <1>4, <2>6, <2>8 DEF Inv
<1> QED
  BY <1>2, <1>3, <1>4

\* What every step of the copy leaves to show.
LEMMA CopyStep ==
    ASSUME Inv, pc = "copy",
           UNCHANGED <<input, declared, decisions, observations, seen>>,
           \/ pc' = "copy" /\ answer' = answer
           \/ pc' = "done" /\ answer' = "repaired",
           CopyOK'
    PROVE  Inv'
<1>1. ScannedTo(Len(input) + 1) /\ answer = "none"
  BY DEF Inv, ScanOK
<1>2. ScannedTo(Len(input) + 1)'
  BY <1>1 DEF ScannedTo, RoundOK, Conflict, Observation
<1>3. ScanOK'
  BY <1>1, <1>2 DEF Inv, ScanOK, IsSequence
<1> QED
  BY <1>1, <1>3 DEF Inv

\* Where the copy stands.
LEMMA CopyPosition ==
    ASSUME Inv, pc = "copy"
    PROVE  /\ Scanned /\ Len(observations) \in Nat /\ Len(input) \in Nat
           /\ index \in 1..Len(observations) + 1 /\ index \in Nat
           /\ CopiedTo(index - 1, cursor, out) /\ cursor \in 0..Len(input)
           /\ DecisionsMatch /\ answer = "none"
           /\ \A i \in DOMAIN input : input[i].id \in usedIDs
           /\ index <= Len(observations) =>
                /\ index \in 1..Len(observations)
                /\ observations[index].end \in cursor..Len(input)
<1>1. ScannedTo(Len(input) + 1) /\ answer = "none"
  BY DEF Inv, ScanOK
<1>2. Scanned /\ Len(observations) \in Nat
  BY <1>1, ScannedOnce
<1>3. Len(input) \in Nat
  BY <1>2 DEF Scanned
<1>4. /\ index \in 1..Len(observations) + 1
      /\ CopiedTo(index - 1, cursor, out)
      /\ index > 1 => cursor = observations[index - 1].end
      /\ index = 1 => cursor = 0
      /\ \A i \in DOMAIN input : input[i].id \in usedIDs
      /\ DecisionsMatch
  BY DEF Inv, CopyOK
<1>5. cursor \in 0..Len(input)
  BY <1>4 DEF CopiedTo
<1>6. ASSUME index <= Len(observations)
      PROVE  index \in 1..Len(observations) /\ observations[index].end \in cursor..Len(input)
  <2>1. index \in 1..Len(observations)
    BY <1>2, <1>4, <1>6
  <2>2. observations[index].start \in 1..observations[index].end /\ observations[index].end \in 1..Len(input)
    BY <1>2, <2>1 DEF Scanned
  <2>3. CASE index = 1
    BY <1>3, <1>4, <2>1, <2>2, <2>3
  <2>4. CASE index > 1
    <3>1. index - 1 \in 1..Len(observations) /\ index - 1 < index
      BY <1>2, <2>1, <2>4
    <3>2. cursor < observations[index].start
      BY <1>2, <1>4, <2>1, <2>4, <3>1 DEF Scanned
    <3> QED
      BY <1>3, <1>5, <2>1, <2>2, <3>2
  <2> QED
    BY <1>2, <2>1, <2>3, <2>4
<1>7. index \in Nat
  BY <1>2, <1>4
<1> QED
  BY <1>1, <1>2, <1>3, <1>4, <1>5, <1>6, <1>7

\* What a step of the copy adds, said of the next state.
LEMMA CopiedNext ==
    ASSUME NEW n, NEW c, NEW o, CopiedTo(n, c, o), UNCHANGED <<input, observations>>
    PROVE  /\ index' - 1 = n /\ cursor' = c /\ out' = o => CopiedTo(index - 1, cursor, out)'
           /\ n = Len(observations) /\ cursor' = c /\ out' = o => CopiedTo(Len(observations), cursor, out)'
<1>1. CopiedTo(n, c, o)'
  <2>1. input' = input /\ observations' = observations
    OBVIOUS
  <2>2. PICK P : Placed(P, n, c, o)
    BY DEF CopiedTo
  <2>3. Placed(P, n, c, o)'
    <3>1. \A j : IsInterrupted(j)' <=> IsInterrupted(j)
      BY <2>1 DEF IsInterrupted
    <3>2. \A i : Repaired(n, i)' <=> Repaired(n, i)
      BY <2>1, <3>1 DEF Repaired
    <3>3. /\ \A i \in 1..c : o[P[i]] = input'[i]
          /\ \A j \in 1..n : IsInterrupted(j)' =>
               /\ P[observations'[j].end] + 1 \in 1..Len(o)
               /\ o[P[observations'[j].end] + 1] = SyntheticMessage(input', observations'[j])
          /\ \A q \in 1..Len(o) :
               \/ \E i \in 1..c : q = P[i]
               \/ \E j \in 1..n : IsInterrupted(j)' /\ q = P[observations'[j].end] + 1
      BY <2>1, <2>2, <3>1 DEF Placed
    <3>4. /\ \A i, j \in 1..c : j = i + 1 => P[j] = P[i] + (IF Repaired(n, i)' THEN 2 ELSE 1)
          /\ Len(o) = IF c = 0 THEN 0 ELSE P[c] + (IF Repaired(n, c)' THEN 1 ELSE 0)
      BY <2>2, <3>2 DEF Placed
    <3>5. P \in [1..c -> 1..Len(o)] /\ \A i, j \in 1..c : i < j => P[i] < P[j]
      BY <2>2 DEF Placed
    <3> QED
      BY <3>3, <3>4, <3>5 DEF Placed
  <2>4. (\E Q : Placed(Q, n, c, o))'
    BY <2>3
  <2>5. IsSequence(o)' /\ Len(observations)' = Len(observations) /\ Len(input)' = Len(input)
    BY <2>1 DEF CopiedTo, IsSequence
  <2>6. (Kept(o, Elements(input)) = SubSeq(input, 1, c))'
    BY <2>1 DEF CopiedTo
  <2>7. (\A j \in 1..n : IsInterrupted(j) => SyntheticMessage(input, observations[j]) \notin Elements(input))'
    BY <2>1 DEF CopiedTo, IsInterrupted
  <2>8. (\A j \in 1..n : observations[j].end <= c)'
    BY <2>1 DEF CopiedTo
  <2>9. c \in 0..Len(input) /\ n \in 0..Len(observations)
    BY DEF CopiedTo
  <2> QED
    BY <2>4, <2>5, <2>6, <2>7, <2>8, <2>9 DEF CopiedTo
<1>2. ASSUME index' - 1 = n, cursor' = c, out' = o
      PROVE  CopiedTo(index - 1, cursor, out)'
  BY <1>1, <1>2
<1>3. ASSUME Len(observations) = n, cursor' = c, out' = o
      PROVE  CopiedTo(Len(observations), cursor, out)'
  <2>1. Len(observations)' = n
    BY <1>3
  <2> QED
    BY <1>1, <1>3, <2>1
<1> QED
  BY <1>2, <1>3

\* A round without a repair is copied.
LEMMA CopyRoundInv ==
    ASSUME Inv, CopyRound
    PROVE  Inv'
<1> DEFINE e == observations[index].end
           t == out \o SubSeq(input, cursor + 1, e)
<1>1. /\ pc = "copy" /\ index <= Len(observations) /\ ~IsInterrupted(index)
      /\ out' = t /\ cursor' = e /\ index' = index + 1
      /\ UNCHANGED <<input, declared, decisions, pc, observations, seen, usedIDs, answer>>
  BY DEF CopyRound, Copying, IsInterrupted
<1>2. /\ Scanned /\ Len(observations) \in Nat /\ index \in 1..Len(observations) /\ index \in Nat
      /\ CopiedTo(index - 1, cursor, out) /\ e \in cursor..Len(input)
      /\ DecisionsMatch /\ answer = "none" /\ \A i \in DOMAIN input : input[i].id \in usedIDs
  BY <1>1, CopyPosition
<1>3. CopiedTo(index - 1, e, t)
  BY <1>2, CopiedMore
<1>4. (index - 1) + 1 = index /\ index' - 1 = index
  BY <1>1, <1>2
<1>5. CopiedTo(index, e, t)
  <2> HIDE DEF t
  <2>1. CopiedTo((index - 1) + 1, e, t)
    BY <1>1, <1>2, <1>3, <1>4, CopiedRound
  <2> QED
    BY <1>4, <2>1
<1> HIDE DEF e, t
<1>6. CopiedTo(index - 1, cursor, out)'
  BY <1>1, <1>4, <1>5, CopiedNext
<1>7. /\ (index \in 1..Len(observations) + 1)'
      /\ (index > 1 => cursor = observations[index - 1].end)'
      /\ (index = 1 => cursor = 0)'
  BY <1>1, <1>2, <1>4 DEF e
<1>8. DecisionsMatch'
  BY <1>1, <1>2 DEF DecisionsMatch, Interrupted
<1>9. CopyOK'
  BY <1>1, <1>2, <1>6, <1>7, <1>8 DEF CopyOK
<1> QED
  BY <1>1, <1>9, CopyStep

\* A round is copied and its synthetic message, of a new identity, put behind it.
LEMMA RepairRoundInv ==
    ASSUME Inv, RepairRound
    PROVE  Inv'
<1> DEFINE r == observations[index]
           x == SyntheticMessage(input, r)
           e == r.end
           t == out \o SubSeq(input, cursor + 1, e)
<1>1. pc = "copy" /\ index <= Len(observations) /\ IsInterrupted(index)
  BY DEF RepairRound, Copying, IsInterrupted
<1>2. \/ Answer("invalid repair")
      \/ /\ x.id \notin usedIDs /\ usedIDs' = usedIDs \cup {x.id}
         /\ out' = t \o <<x>> /\ cursor' = e /\ index' = index + 1
         /\ UNCHANGED <<input, declared, decisions, pc, observations, seen, answer>>
  BY DEF RepairRound
<1>3. CASE Answer("invalid repair")
  BY <1>3, AnswerInv
<1>4. CASE /\ x.id \notin usedIDs /\ usedIDs' = usedIDs \cup {x.id}
           /\ out' = t \o <<x>> /\ cursor' = e /\ index' = index + 1
           /\ UNCHANGED <<input, declared, decisions, pc, observations, seen, answer>>
  <2>1. /\ Scanned /\ Len(observations) \in Nat /\ index \in 1..Len(observations) /\ index \in Nat
        /\ CopiedTo(index - 1, cursor, out) /\ e \in cursor..Len(input)
        /\ DecisionsMatch /\ answer = "none" /\ \A i \in DOMAIN input : input[i].id \in usedIDs
    BY <1>1, CopyPosition
  <2>2. CopiedTo(index - 1, e, t)
    BY <2>1, CopiedMore
  <2>3. (index - 1) + 1 = index /\ index' - 1 = index
    BY <1>4, <2>1
  <2>4. x \notin Elements(input)
    BY <1>4, <2>1 DEF Elements
  <2>5. CopiedTo(index, e, t \o <<x>>)
    <3> HIDE DEF t
    <3>1. CopiedTo((index - 1) + 1, e, t \o <<SyntheticMessage(input, observations[(index - 1) + 1])>>)
      BY <1>1, <2>1, <2>2, <2>3, <2>4, CopiedRepair
    <3> QED
      BY <2>3, <3>1
  <2> DEFINE u == t \o <<x>>
  <2> HIDE DEF e, u
  <2>6. CopiedTo(index - 1, cursor, out)'
    <3>1. CopiedTo(index, e, u) /\ out' = u /\ cursor' = e /\ index' - 1 = index
      BY <1>4, <2>3, <2>5 DEF u
    <3>2. UNCHANGED <<input, observations>>
      BY <1>4
    <3> HIDE DEF t, x
    <3> QED
      BY <3>1, <3>2, CopiedNext
  <2>7. /\ (index \in 1..Len(observations) + 1)'
        /\ (index > 1 => cursor = observations[index - 1].end)'
        /\ (index = 1 => cursor = 0)'
    BY <1>4, <2>1, <2>3 DEF e
  <2>8. DecisionsMatch'
    BY <1>4, <2>1 DEF DecisionsMatch, Interrupted
  <2>9. (\A i \in DOMAIN input : input[i].id \in usedIDs)'
    BY <1>4, <2>1
  <2>10. CopyOK'
    BY <1>1, <1>4, <2>1, <2>6, <2>7, <2>8, <2>9 DEF CopyOK
  <2> QED
    BY <1>1, <1>4, <2>10, CopyStep
<1> QED
  BY <1>2, <1>3, <1>4

\* The rest is copied behind the last round.
LEMMA FinishInv ==
    ASSUME Inv, Finish
    PROVE  Inv'
<1> DEFINE e == Len(input)
           t == out \o SubSeq(input, cursor + 1, e)
<1>1. /\ pc = "copy" /\ index > Len(observations)
      /\ out' = t /\ cursor' = e /\ answer' = "repaired" /\ pc' = "done"
      /\ UNCHANGED <<input, declared, decisions, index, observations, seen, usedIDs>>
  BY DEF Finish
<1>2. /\ Scanned /\ Len(observations) \in Nat /\ index \in 1..Len(observations) + 1 /\ index \in Nat
      /\ CopiedTo(index - 1, cursor, out) /\ cursor \in 0..Len(input) /\ Len(input) \in Nat
      /\ DecisionsMatch /\ answer = "none"
  BY <1>1, CopyPosition
<1>3. e \in cursor..Len(input) /\ index - 1 = Len(observations)
  BY <1>1, <1>2
<1>4. CopiedTo(Len(observations), e, t)
  <2>1. CopiedTo(index - 1, e, t)
    BY <1>2, <1>3, CopiedMore
  <2> QED
    BY <1>3, <2>1
<1> HIDE DEF t
<1>5. CopiedTo(Len(observations), cursor, out)'
  BY <1>1, <1>4, CopiedNext
<1>6. DecisionsMatch'
  BY <1>1, <1>2 DEF DecisionsMatch, Interrupted
<1>7. CopyOK'
  BY <1>1, <1>5, <1>6 DEF CopyOK
<1> QED
  BY <1>1, <1>7, CopyStep

\* Every step preserves the invariant.
LEMMA NextInv ==
    ASSUME Inv, [Next]_vars
    PROVE  Inv'
<1>1. CASE SkipMessage
  BY <1>1, SkipMessageInv
<1>2. CASE RejectLayout
  BY <1>2, RejectLayoutInv
<1>3. CASE RejectDeclared
  BY <1>3, RejectDeclaredInv
<1>4. CASE ObserveRound
  BY <1>4, ObserveRoundInv
<1>5. CASE EndScan
  BY <1>5, EndScanInv
<1>6. CASE Decide
  BY <1>6, DecideInv
<1>7. CASE CopyRound
  BY <1>7, CopyRoundInv
<1>8. CASE RepairRound
  BY <1>8, RepairRoundInv
<1>9. CASE Finish
  BY <1>9, FinishInv
<1>10. CASE CodecFails
  <2>1. Answer("codec")
    BY <1>10 DEF CodecFails
  <2> QED
    BY <2>1, AnswerInv
<1>11. CASE Canceled
  <2>1. Answer("canceled")
    BY <1>11 DEF Canceled
  <2> QED
    BY <2>1, AnswerInv
<1>12. CASE UNCHANGED vars
  <2>1. /\ UNCHANGED <<input, declared, decisions, pc, index, observations, seen, cursor, out, usedIDs, answer>>
    BY <1>12 DEF vars
  <2>2. ScanOK'
    <3>1. ScannedTo(index) => ScannedTo(index)'
      BY <2>1 DEF ScannedTo, RoundOK, Conflict, Observation
    <3>2. ScannedTo(Len(input) + 1) => ScannedTo(Len(input) + 1)'
      BY <2>1 DEF ScannedTo, RoundOK, Conflict, Observation
    <3>3. IsSequence(observations)'
      BY <2>1 DEF Inv, ScanOK, IsSequence
    <3> QED
      BY <2>1, <3>1, <3>2, <3>3 DEF Inv, ScanOK
  <2>3. (pc = "copy" => CopiedTo(index - 1, cursor, out))'
    <3>1. pc = "copy" => CopiedTo(index - 1, cursor, out)
      BY DEF Inv, CopyOK
    <3>2. index' - 1 = index - 1
      BY <2>1
    <3> QED
      BY <2>1, <3>1, <3>2, CopiedNext
  <2>4. (answer = "repaired" => CopiedTo(Len(observations), cursor, out))'
    <3>1. answer = "repaired" => CopiedTo(Len(observations), cursor, out)
      BY DEF Inv, CopyOK
    <3> QED
      BY <2>1, <3>1, CopiedNext
  <2>5. CopyOK'
    BY <2>1, <2>3, <2>4 DEF Inv, CopyOK, DecisionsMatch, Interrupted
  <2> QED
    BY <2>1, <2>2, <2>5 DEF Inv
<1> QED
  BY <1>1, <1>2, <1>3, <1>4, <1>5, <1>6, <1>7, <1>8, <1>9, <1>10, <1>11, <1>12 DEF Next, Step

\* The invariant holds in every state.
THEOREM InvHolds == Spec => []Inv
<1>1. Init => Inv
  BY InitInv
<1>2. Inv /\ [Next]_vars => Inv'
  BY NextInv
<1> QED
  BY <1>1, <1>2, PTL DEF Spec

-----------------------------------------------------------------------------
(* What a finished scan and a finished copy amount to *)

\* What is kept depends on the elements only.
LEMMA KeptSame ==
    ASSUME NEW R, NEW s \in Seq(R), NEW S, NEW T, Elements(s) \cap S = Elements(s) \cap T
    PROVE  Kept(s, S) = Kept(s, T)
<1> DEFINE P == {t \in Seq(R) : Elements(t) \cap S = Elements(t) \cap T => Kept(t, S) = Kept(t, T)}
<1>1. << >> \in P
  BY KeptEmpty, EmptySeq
<1>2. ASSUME NEW t \in Seq(R), NEW x \in R, t \in P
      PROVE  Append(t, x) \in P
  <2>1. Append(t, x) \in Seq(R)
    BY AppendProperties
  <2> SUFFICES ASSUME Elements(Append(t, x)) \cap S = Elements(Append(t, x)) \cap T
               PROVE  Kept(Append(t, x), S) = Kept(Append(t, x), T)
    BY <2>1
  <2>2. /\ DOMAIN Append(t, x) = 1..Len(t) + 1 /\ DOMAIN t = 1..Len(t) /\ Len(t) \in Nat
        /\ \A k \in 1..Len(t) : Append(t, x)[k] = t[k]
        /\ Append(t, x)[Len(t) + 1] = x
    BY AppendProperties, LenProperties
  <2>3. (\A k \in 1..Len(t) : k \in 1..Len(t) + 1) /\ Len(t) + 1 \in 1..Len(t) + 1
    BY <2>2
  <2>4. Elements(t) \subseteq Elements(Append(t, x)) /\ x \in Elements(Append(t, x))
    BY <2>2, <2>3 DEF Elements
  <2>5. Elements(t) \cap S = Elements(t) \cap T /\ (x \in S <=> x \in T)
    BY <2>4
  <2>6. Kept(t, S) = Kept(t, T)
    BY <1>2, <2>5
  <2>7. /\ Kept(Append(t, x), S) = IF x \in S THEN Append(Kept(t, S), x) ELSE Kept(t, S)
        /\ Kept(Append(t, x), T) = IF x \in T THEN Append(Kept(t, T), x) ELSE Kept(t, T)
    BY KeptAppend
  <2> QED
    BY <2>5, <2>6, <2>7
<1> HIDE DEF P
<1>3. Seq(R) \subseteq P
  BY <1>1, <1>2, SeqSetInduction
<1> QED
  BY <1>3 DEF P

\* The history of a finished scan is valid and its rounds are those observed.
LEMMA ScanExact ==
    ASSUME Inv, ScannedTo(Len(input) + 1)
    PROVE  /\ LayoutValid(input)
           /\ \A s \in Opens(input) : \E k \in 1..Len(observations) : observations[k].start = s
           /\ \A k \in 1..Len(observations) : observations[k].start \in Opens(input)
<1>1. Scanned /\ Len(observations) \in Nat /\ DOMAIN observations = 1..Len(observations)
  BY ScannedOnce
<1>2. Len(input) \in Nat /\ DOMAIN input = 1..Len(input)
  BY InputSequence
<1>3. \A s \in Opens(input) : \E k \in 1..Len(observations) : observations[k].start = s
  BY <1>1, <1>2 DEF ScannedTo, Opens
<1>4. \A k \in 1..Len(observations) : observations[k].start \in Opens(input)
  BY <1>1 DEF Scanned, RoundOK
<1>5. \A s \in Opens(input) : RoundValid(input, s)
  BY <1>1, <1>3 DEF Scanned, RoundOK
<1>6. \A s, t \in Opens(input) : input[s].id = input[t].id => s = t \/ input[s].id = NoID
  <2> SUFFICES ASSUME NEW s \in Opens(input), NEW t \in Opens(input), input[s].id = input[t].id
               PROVE  s = t \/ input[s].id = NoID
    OBVIOUS
  <2>1. PICK j \in 1..Len(observations) : observations[j].start = s
    BY <1>3
  <2>2. PICK k \in 1..Len(observations) : observations[k].start = t
    BY <1>3
  <2>3. observations[j].id = input[s].id /\ observations[k].id = input[t].id
    BY <1>1, <2>1, <2>2, RoundEnds DEF Scanned
  <2>4. j = k \/ observations[j].id = NoID
    BY <1>1, <2>3 DEF ScannedTo
  <2> QED
    BY <2>1, <2>2, <2>3, <2>4
<1>7. \A i \in DOMAIN input : InToolBlock(input, i) \/ (input[i].role # "tool" /\ input[i].results = << >>)
  BY <1>2 DEF ScannedTo
<1> QED
  BY <1>3, <1>4, <1>5, <1>6, <1>7 DEF LayoutValid

\* An interrupted round was pending.
LEMMA InterruptedPending ==
    ASSUME NEW k, RoundOK(observations[k])
    PROVE  /\ IsInterrupted(k) =>
                /\ LocalState(input, observations[k].start) = "pending"
                /\ declared[observations[k].id] = "interrupted"
           /\ ~IsInterrupted(k) /\ LocalState(input, observations[k].start) = "pending" =>
                declared[observations[k].id] \in {"none", "pending"}
<1> DEFINE o == observations[k]
           s == o.start
           said == declared[input[s].id]
<1>1. /\ o = Observation(input, s) /\ ~Conflict(input, s)
      /\ declared[o.id] \in {"none", "complete", "pending", "interrupted"}
  BY DEF RoundOK, States
<1>2. o.id = input[s].id /\ o.state = IF said = "interrupted" THEN said ELSE LocalState(input, s)
  BY <1>1 DEF Observation
<1>3. LocalState(input, s) \in {"complete", "pending"}
  BY DEF LocalState
<1>4. \/ said = "none" \/ said = LocalState(input, s)
      \/ said = "interrupted" /\ LocalState(input, s) = "pending"
  BY <1>1 DEF Conflict
<1>5. declared[o.id] = said
  BY <1>2
<1> DEFINE local == LocalState(input, s)
<1> HIDE DEF said, local
<1>6. /\ o.state = "interrupted" => local = "pending" /\ said = "interrupted"
      /\ o.state # "interrupted" /\ local = "pending" => said \in {"none", "pending"}
  <2>1. /\ o.state = IF said = "interrupted" THEN said ELSE local
        /\ local \in {"complete", "pending"}
        /\ said \in {"none", "complete", "pending", "interrupted"}
        /\ said = "none" \/ said = local \/ (said = "interrupted" /\ local = "pending")
    BY <1>1, <1>2, <1>3, <1>4, <1>5 DEF local
  <2> QED
    BY ONLY <2>1
<1> QED
  BY <1>5, <1>6 DEF IsInterrupted, local

\* The projection of a repaired history, with the places of its messages.
Laid(P) ==
    /\ Scanned
    /\ Len(observations) \in Nat
    /\ LayoutValid(input)
    /\ \A i \in DOMAIN input : IsSequence(input[i].calls)
    /\ \A s \in Opens(input) : \E k \in 1..Len(observations) : observations[k].start = s
    /\ \A k \in 1..Len(observations) : observations[k].start \in Opens(input)
    /\ IsSequence(out)
    /\ Placed(P, Len(observations), Len(input), out)
    /\ \A j \in 1..Len(observations) :
         IsInterrupted(j) => SyntheticMessage(input, observations[j]) \notin Elements(input)

\* What a repaired history looks like.
LEMMA RepairedLaid ==
    ASSUME Inv, answer = "repaired"
    PROVE  /\ \E P : Laid(P)
           /\ DecisionsMatch
           /\ Kept(out, Elements(input)) = input
<1>1. ScannedTo(Len(input) + 1)
  BY DEF Inv, ScanOK
<1>2. Scanned /\ Len(observations) \in Nat
  BY <1>1, ScannedOnce
<1>3. /\ LayoutValid(input)
      /\ \A s \in Opens(input) : \E k \in 1..Len(observations) : observations[k].start = s
      /\ \A k \in 1..Len(observations) : observations[k].start \in Opens(input)
  BY <1>1, ScanExact
<1>4. cursor = Len(input) /\ CopiedTo(Len(observations), cursor, out) /\ DecisionsMatch
  BY DEF Inv, CopyOK
<1>5. PICK P : Placed(P, Len(observations), Len(input), out)
  BY <1>4 DEF CopiedTo
<1>6. Laid(P)
  BY <1>2, <1>3, <1>4, <1>5, InputSequence DEF CopiedTo, Laid
<1>7. SubSeq(input, 1, Len(input)) = input
  <2>1. input \in Seq(Range(input))
    BY <1>2 DEF Scanned, IsSequence
  <2> QED
    BY <2>1
<1> QED
  BY <1>4, <1>6, <1>7 DEF CopiedTo

\* The places of the messages are in order.
LEMMA LaidPlaces ==
    ASSUME NEW P, Laid(P)
    PROVE  /\ Len(input) \in Nat /\ DOMAIN input = 1..Len(input) /\ IsSequence(input)
           /\ Len(out) \in Nat /\ DOMAIN out = 1..Len(out) /\ IsSequence(out)
           /\ \A i \in DOMAIN input : P[i] \in DOMAIN out /\ P[i] \in Nat /\ out[P[i]] = input[i]
           /\ \A i, j \in DOMAIN input : i < j <=> P[i] < P[j]
           /\ \A i, j \in DOMAIN input : P[i] = P[j] => i = j
<1>1. IsSequence(input) /\ IsSequence(out)
  BY DEF Laid, Scanned
<1>2. /\ Len(input) \in Nat /\ DOMAIN input = 1..Len(input)
      /\ Len(out) \in Nat /\ DOMAIN out = 1..Len(out)
  BY <1>1, SequenceDomain
<1>3. /\ P \in [1..Len(input) -> 1..Len(out)]
      /\ \A i \in 1..Len(input) : out[P[i]] = input[i]
      /\ \A i, j \in 1..Len(input) : i < j => P[i] < P[j]
  BY DEF Laid, Placed
<1>4. \A i \in 1..Len(input) : P[i] \in 1..Len(out)
  BY <1>3
<1>5. \A i \in 1..Len(input) : P[i] \in Nat
  BY <1>2, <1>4
<1>6. \A i, j \in 1..Len(input) : (i < j <=> P[i] < P[j]) /\ (P[i] = P[j] => i = j)
  <2> TAKE i, j \in 1..Len(input)
  <2>1. i \in Int /\ j \in Int /\ P[i] \in Int /\ P[j] \in Int
    BY <1>2, <1>5
  <2>2. (i < j => P[i] < P[j]) /\ (j < i => P[j] < P[i])
    BY <1>3
  <2> QED
    BY <2>1, <2>2
<1> QED
  BY <1>1, <1>2, <1>3, <1>4, <1>5, <1>6

\* Each message of the projection is one of the source or a synthetic one.
LEMMA LaidKinds ==
    ASSUME NEW P, Laid(P), NEW q \in DOMAIN out
    PROVE  \/ \E i \in DOMAIN input : q = P[i]
           \/ \E j \in 1..Len(observations) :
                /\ IsInterrupted(j) /\ q = P[observations[j].end] + 1
                /\ out[q] = SyntheticMessage(input, observations[j])
<1>1. q \in 1..Len(out) /\ DOMAIN input = 1..Len(input)
  BY LaidPlaces
<1>2. \/ \E i \in 1..Len(input) : q = P[i]
      \/ \E j \in 1..Len(observations) : IsInterrupted(j) /\ q = P[observations[j].end] + 1
  BY <1>1 DEF Laid, Placed
<1>3. \A j \in 1..Len(observations) :
        IsInterrupted(j) => out[P[observations[j].end] + 1] = SyntheticMessage(input, observations[j])
  BY DEF Laid, Placed
<1> QED
  BY <1>1, <1>2, <1>3

\* The observation of a round in a finished scan.
LEMMA LaidRound ==
    ASSUME NEW P, Laid(P), NEW k \in 1..Len(observations)
    PROVE  LET o == observations[k]
           IN  /\ RoundOK(o) /\ o.start \in Opens(input)
               /\ o.start \in DOMAIN input /\ o.end \in DOMAIN input
               /\ o.start \in Nat /\ o.end \in Nat /\ o.start <= o.end
               /\ o.end = ContiguousToolBlockEnd(input, o.start)
               /\ o.id = input[o.start].id
               /\ o = Observation(input, o.start)
               /\ \A i \in DOMAIN input : o.start < i /\ i <= o.end => input[i].role = "tool"
               /\ o.end < Len(input) => input[o.end + 1].role # "tool"
<1> DEFINE o == observations[k]
<1>1. RoundOK(o) /\ o.start \in 1..o.end /\ o.end \in 1..Len(input) /\ Len(input) \in Nat /\ DOMAIN input = 1..Len(input)
  BY LaidPlaces DEF Laid, Scanned
<1>2. IsSequence(input)
  BY DEF Laid, Scanned
<1>3. o.start \in Opens(input) /\ o = Observation(input, o.start)
  BY <1>1 DEF RoundOK
<1> HIDE DEF o
<1>4. o.end \in Nat /\ o.start \in Nat /\ o.start <= o.end /\ o.start \in DOMAIN input /\ o.end \in DOMAIN input
  BY <1>1
<1>5. o.end = ContiguousToolBlockEnd(input, o.start) /\ o.id = input[o.start].id
  BY <1>3 DEF Observation
<1>6. /\ \A i \in o.start + 1..o.end : input[i].role = "tool"
      /\ o.end < Len(input) => input[o.end + 1].role # "tool"
  BY <1>2, <1>4, <1>5, BlockEnd
<1>7. \A i \in DOMAIN input : o.start < i /\ i <= o.end => i \in o.start + 1..o.end
  BY <1>1, <1>4
<1> QED
  BY <1>1, <1>3, <1>4, <1>5, <1>6, <1>7 DEF o

\* Rounds are apart.
LEMMA LaidApart ==
    ASSUME NEW P, Laid(P), NEW j \in 1..Len(observations), NEW k \in 1..Len(observations)
    PROVE  /\ j # k => observations[j].end < observations[k].start \/ observations[k].end < observations[j].start
           /\ observations[j].end = observations[k].end => j = k
           /\ observations[j].start = observations[k].start => j = k
<1>1. j \in Nat /\ k \in Nat
  BY DEF Laid
<1>2. j < k => observations[j].end < observations[k].start
  BY DEF Laid, Scanned
<1>3. k < j => observations[k].end < observations[j].start
  BY DEF Laid, Scanned
<1>4. /\ observations[j].start \in Nat /\ observations[j].end \in Nat /\ observations[j].start <= observations[j].end
      /\ observations[k].start \in Nat /\ observations[k].end \in Nat /\ observations[k].start <= observations[k].end
  BY LaidRound
<1> QED
  BY <1>1, <1>2, <1>3, <1>4

\* What follows a round in the projection.
LEMMA LaidNext ==
    ASSUME NEW P, Laid(P), NEW k \in 1..Len(observations)
    PROVE  LET e == observations[k].end
               E == P[e] + (IF IsInterrupted(k) THEN 1 ELSE 0)
           IN  /\ E \in DOMAIN out /\ P[e] <= E /\ E \in Nat
               /\ e < Len(input) => E + 1 = P[e + 1]
               /\ ~(e < Len(input)) => E = Len(out)
               /\ IsInterrupted(k) => out[E] = SyntheticMessage(input, observations[k])
<1> DEFINE e == observations[k].end
           E == P[e] + (IF IsInterrupted(k) THEN 1 ELSE 0)
           n == Len(observations)
<1>1. /\ Len(input) \in Nat /\ DOMAIN input = 1..Len(input)
      /\ Len(out) \in Nat /\ DOMAIN out = 1..Len(out)
      /\ e \in 1..Len(input) /\ e \in Nat
      /\ P[e] \in 1..Len(out) /\ P[e] \in Nat
  BY LaidPlaces, LaidRound
<1>2. Repaired(n, e) <=> IsInterrupted(k)
  <2>1. IsInterrupted(k) => Repaired(n, e)
    BY DEF Repaired
  <2>2. ASSUME Repaired(n, e) PROVE IsInterrupted(k)
    <3>1. PICK j \in 1..n : IsInterrupted(j) /\ observations[j].end = e
      BY <2>2 DEF Repaired
    <3>2. j = k
      BY <3>1, LaidApart
    <3> QED
      BY <3>1, <3>2
  <2> QED
    BY <2>1, <2>2
<1>3. /\ \A i, j \in 1..Len(input) : j = i + 1 => P[j] = P[i] + (IF Repaired(n, i) THEN 2 ELSE 1)
      /\ Len(out) = IF Len(input) = 0 THEN 0 ELSE P[Len(input)] + (IF Repaired(n, Len(input)) THEN 1 ELSE 0)
      /\ IsInterrupted(k) =>
           /\ P[e] + 1 \in 1..Len(out)
           /\ out[P[e] + 1] = SyntheticMessage(input, observations[k])
  BY DEF Laid, Placed
<1> HIDE DEF e, n
<1>4. e < Len(input) => e + 1 \in 1..Len(input) /\ P[e + 1] = P[e] + (IF IsInterrupted(k) THEN 2 ELSE 1)
  BY <1>1, <1>2, <1>3
<1>5. ~(e < Len(input)) => Len(out) = P[e] + (IF IsInterrupted(k) THEN 1 ELSE 0)
  <2> SUFFICES ASSUME ~(e < Len(input)) PROVE Len(out) = P[e] + (IF IsInterrupted(k) THEN 1 ELSE 0)
    OBVIOUS
  <2>1. e = Len(input) /\ Len(input) # 0
    <3>1. e \in 1..Len(input) /\ Len(input) \in Nat /\ ~(e < Len(input))
      BY <1>1
    <3> QED
      BY ONLY <3>1
  <2> QED
    BY <1>2, <1>3, <2>1
<1>6. /\ E \in DOMAIN out /\ P[e] <= E /\ E \in Nat
      /\ e < Len(input) => E + 1 = P[e + 1]
      /\ ~(e < Len(input)) => E = Len(out)
      /\ IsInterrupted(k) => out[E] = SyntheticMessage(input, observations[k])
  <2>1. CASE IsInterrupted(k)
    BY <1>1, <1>3, <1>4, <1>5, <2>1
  <2>2. CASE ~IsInterrupted(k)
    BY <1>1, <1>3, <1>4, <1>5, <2>2
  <2> QED
    BY <2>1, <2>2
<1> QED
  BY <1>6 DEF e

\* The positions of a round in the projection.
LEMMA LaidBlock ==
    ASSUME NEW P, Laid(P), NEW k \in 1..Len(observations), NEW q \in DOMAIN out,
           P[observations[k].start] < q,
           q <= P[observations[k].end] + (IF IsInterrupted(k) THEN 1 ELSE 0)
    PROVE  \/ \E i \in DOMAIN input :
                q = P[i] /\ out[q] = input[i] /\ observations[k].start < i /\ i <= observations[k].end
           \/ /\ IsInterrupted(k) /\ q = P[observations[k].end] + 1
              /\ out[q] = SyntheticMessage(input, observations[k])
<1> DEFINE s == observations[k].start
           e == observations[k].end
           E == P[e] + (IF IsInterrupted(k) THEN 1 ELSE 0)
<1>1. /\ Len(input) \in Nat /\ DOMAIN input = 1..Len(input)
      /\ Len(out) \in Nat /\ DOMAIN out = 1..Len(out)
      /\ \A i \in DOMAIN input : P[i] \in Nat /\ out[P[i]] = input[i]
      /\ \A i, j \in DOMAIN input : i < j <=> P[i] < P[j]
  BY LaidPlaces
<1>2. s \in DOMAIN input /\ e \in DOMAIN input /\ s \in Nat /\ e \in Nat /\ s <= e
  BY LaidRound
<1>3. E \in Nat /\ (e < Len(input) => E + 1 = P[e + 1])
  BY LaidNext
<1>4. P[s] < q /\ q <= E /\ q \in Nat
  BY <1>1
<1> HIDE DEF s, e, E
<1>5. CASE \E i \in DOMAIN input : q = P[i]
  <2>1. PICK i \in DOMAIN input : q = P[i]
    BY <1>5
  <2>2. s < i /\ i \in Nat
    BY <1>1, <1>2, <1>4, <2>1
  <2>3. i <= e
    <3> SUFFICES ASSUME ~(i <= e) PROVE FALSE
      OBVIOUS
    <3>1. e + 1 \in DOMAIN input /\ ~(i < e + 1)
      BY <1>1, <1>2, <2>1, <2>2
    <3>2. ~(P[i] < P[e + 1]) /\ P[e + 1] = E + 1
      BY <1>1, <1>2, <1>3, <2>1, <3>1
    <3> QED
      BY <1>3, <1>4, <2>1, <3>2
  <2> QED
    BY <1>1, <2>1, <2>2, <2>3 DEF s, e
<1>6. CASE \E j \in 1..Len(observations) :
             /\ IsInterrupted(j) /\ q = P[observations[j].end] + 1
             /\ out[q] = SyntheticMessage(input, observations[j])
  <2>1. PICK j \in 1..Len(observations) :
             /\ IsInterrupted(j) /\ q = P[observations[j].end] + 1
             /\ out[q] = SyntheticMessage(input, observations[j])
    BY <1>6
  <2> DEFINE f == observations[j].end
  <2>2. f \in DOMAIN input /\ f \in Nat /\ observations[j].start \in Nat /\ observations[j].start <= f
    BY LaidRound
  <2>3. P[f] \in Nat /\ q = P[f] + 1
    BY <1>1, <2>1, <2>2
  <2> HIDE DEF f
  <2>4. ~(f < s)
    <3> SUFFICES ASSUME f < s PROVE FALSE
      OBVIOUS
    <3>1. P[f] < P[s] /\ P[s] \in Nat
      BY <1>1, <1>2, <2>2
    <3> QED
      BY <1>4, <2>3, <3>1
  <2>5. ~(e < f)
    <3> SUFFICES ASSUME e < f PROVE FALSE
      OBVIOUS
    <3>1. e < Len(input) /\ e + 1 \in DOMAIN input /\ ~(f < e + 1)
      BY <1>1, <1>2, <2>2
    <3>2. ~(P[f] < P[e + 1]) /\ P[e + 1] = E + 1
      BY <1>1, <1>3, <2>2, <3>1
    <3> QED
      BY <1>3, <1>4, <2>3, <3>2
  <2>6. j = k
    <3> SUFFICES ASSUME j # k PROVE FALSE
      OBVIOUS
    <3>1. f < s \/ e < observations[j].start
      BY LaidApart DEF f, s, e
    <3>2. e < observations[j].start
      BY <2>4, <3>1
    <3> QED
      BY <1>2, <2>2, <2>5, <3>2
  <2> QED
    BY <2>1, <2>6 DEF e
<1> QED
  BY <1>5, <1>6, LaidKinds

\* Synthetic messages are tool messages without calls.
LEMMA SyntheticParts ==
    ASSUME NEW o
    PROVE  LET x == SyntheticMessage(input, o)
           IN  x.role = "tool" /\ x.calls = << >> /\ x.results = o.missing /\ ~HasToolCalls(x)
BY DEF SyntheticMessage, HasToolCalls

\* The rounds of the projection are those of the source.
LEMMA OpensLaid ==
    ASSUME NEW P, Laid(P)
    PROVE  Opens(out) = {P[s] : s \in Opens(input)}
<1>1. /\ \A i \in DOMAIN input : P[i] \in DOMAIN out /\ out[P[i]] = input[i]
  BY LaidPlaces
<1>2. ASSUME NEW s \in Opens(input)
      PROVE  P[s] \in Opens(out)
  BY <1>1 DEF Opens
<1>3. ASSUME NEW q \in Opens(out)
      PROVE  \E s \in Opens(input) : q = P[s]
  <2>1. q \in DOMAIN out /\ HasToolCalls(out[q]) /\ out[q].role # "tool"
    BY DEF Opens
  <2>2. CASE \E i \in DOMAIN input : q = P[i]
    BY <1>1, <2>1, <2>2 DEF Opens
  <2>3. CASE \E j \in 1..Len(observations) :
               /\ IsInterrupted(j) /\ q = P[observations[j].end] + 1
               /\ out[q] = SyntheticMessage(input, observations[j])
    BY <2>1, <2>3, SyntheticParts
  <2> QED
    BY <2>1, <2>2, <2>3, LaidKinds
<1> QED
  BY <1>2, <1>3

\* The block of a round in the projection ends with the round, or with its
\* synthetic message.
LEMMA LaidEnd ==
    ASSUME NEW P, Laid(P), NEW k \in 1..Len(observations)
    PROVE  ContiguousToolBlockEnd(out, P[observations[k].start])
               = P[observations[k].end] + (IF IsInterrupted(k) THEN 1 ELSE 0)
<1> DEFINE s == observations[k].start
           e == observations[k].end
           E == P[e] + (IF IsInterrupted(k) THEN 1 ELSE 0)
<1>1. /\ Len(input) \in Nat /\ DOMAIN input = 1..Len(input)
      /\ Len(out) \in Nat /\ DOMAIN out = 1..Len(out) /\ IsSequence(out)
      /\ \A i \in DOMAIN input : P[i] \in Nat /\ P[i] \in DOMAIN out /\ out[P[i]] = input[i]
      /\ \A i, j \in DOMAIN input : i < j <=> P[i] < P[j]
  BY LaidPlaces
<1>2. /\ s \in DOMAIN input /\ e \in DOMAIN input /\ s \in Nat /\ e \in Nat /\ s <= e
      /\ \A i \in DOMAIN input : s < i /\ i <= e => input[i].role = "tool"
      /\ e < Len(input) => input[e + 1].role # "tool"
  BY LaidRound
<1>3. /\ E \in DOMAIN out /\ P[e] <= E /\ E \in Nat
      /\ e < Len(input) => E + 1 = P[e + 1]
      /\ ~(e < Len(input)) => E = Len(out)
  BY LaidNext
<1>4. \A q \in DOMAIN out : P[s] < q /\ q <= E => out[q].role = "tool"
  <2> SUFFICES ASSUME NEW q \in DOMAIN out, P[s] < q, q <= E
               PROVE  out[q].role = "tool"
    OBVIOUS
  <2>1. \/ \E i \in DOMAIN input : q = P[i] /\ out[q] = input[i] /\ s < i /\ i <= e
        \/ out[q] = SyntheticMessage(input, observations[k])
    BY LaidBlock
  <2> QED
    BY <1>2, <2>1, SyntheticParts
<1> HIDE DEF s, e, E
<1>5. P[s] \in Nat /\ P[s] \in DOMAIN out /\ P[s] <= E
  <2>1. P[s] <= P[e]
    <3>1. CASE s = e
      BY <1>1, <1>2, <3>1
    <3>2. CASE s # e
      <4>1. s < e
        BY <1>2, <3>2
      <4> QED
        BY <1>1, <1>2, <4>1
    <3> QED
      BY <3>1, <3>2
  <2>2. P[s] \in Nat /\ P[e] \in Nat /\ P[s] \in DOMAIN out
    BY <1>1, <1>2
  <2> QED
    BY <1>3, <2>1, <2>2
<1>6. E \in P[s]..Len(out)
  BY <1>1, <1>3, <1>5
<1>7. \A q \in P[s] + 1..E : out[q].role = "tool"
  <2> TAKE q \in P[s] + 1..E
  <2>1. q \in DOMAIN out /\ P[s] < q /\ q <= E
    BY <1>1, <1>5, <1>6
  <2> QED
    BY <1>4, <2>1
<1>8. E < Len(out) => out[E + 1].role # "tool"
  <2> SUFFICES ASSUME E < Len(out) PROVE out[E + 1].role # "tool"
    OBVIOUS
  <2>1. e < Len(input)
    BY <1>1, <1>3
  <2>2. e + 1 \in DOMAIN input
    BY <1>1, <1>2, <2>1
  <2> QED
    BY <1>1, <1>2, <1>3, <2>1, <2>2
<1>9. ContiguousToolBlockEnd(out, P[s]) = E
  BY <1>1, <1>5, <1>6, <1>7, <1>8, BlockEndIs
<1> QED
  BY <1>9 DEF s, e, E

\* What a round lacks, by its observation.
LEMMA LaidMissing ==
    ASSUME NEW P, Laid(P), NEW k \in 1..Len(observations)
    PROVE  LET o == observations[k]
               answered == Answered(input, o.start + 1, o.end)
           IN  /\ RoundValid(input, o.start)
               /\ Distinct(o.missing)
               /\ Elements(o.missing) = Elements(input[o.start].calls) \ answered
               /\ IsInterrupted(k) => o.missing # << >>
<1> DEFINE o == observations[k]
           s == o.start
<1>1. RoundOK(o) /\ s \in DOMAIN input /\ o = Observation(input, s) /\ o.end = ContiguousToolBlockEnd(input, s)
  BY LaidRound
<1>2. o.missing = MissingCalls(input, s)
  BY <1>1 DEF Observation
<1>3. RoundValid(input, s) /\ CallIDsValid(input[s].calls)
  BY <1>1 DEF RoundOK, RoundValid
<1>4. IsInterrupted(k) => LocalState(input, s) = "pending"
  BY <1>1, InterruptedPending
<1>5. IsSequence(input[s].calls)
  BY <1>1 DEF Laid
<1> HIDE DEF o, s
<1> QED
  BY <1>1, <1>2, <1>3, <1>4, <1>5, MissingOf DEF o, s

\* The tool messages of a round in the projection.
LEMMA LaidTools ==
    ASSUME NEW P, Laid(P), NEW k \in 1..Len(observations)
    PROVE  LET s == observations[k].start
               e == observations[k].end
               E == P[e] + (IF IsInterrupted(k) THEN 1 ELSE 0)
           IN  /\ \A q \in P[s] + 1..E :
                    \/ \E i \in s + 1..e : q = P[i] /\ out[q] = input[i]
                    \/ /\ IsInterrupted(k) /\ q = P[e] + 1
                       /\ out[q] = SyntheticMessage(input, observations[k])
               /\ \A i \in s + 1..e : P[i] \in P[s] + 1..E /\ out[P[i]] = input[i]
               /\ IsInterrupted(k) => E \in P[s] + 1..E /\ out[E] = SyntheticMessage(input, observations[k])
<1> DEFINE s == observations[k].start
           e == observations[k].end
           E == P[e] + (IF IsInterrupted(k) THEN 1 ELSE 0)
<1>1. /\ Len(input) \in Nat /\ DOMAIN input = 1..Len(input)
      /\ Len(out) \in Nat /\ DOMAIN out = 1..Len(out)
      /\ \A i \in DOMAIN input : P[i] \in Nat /\ P[i] \in DOMAIN out /\ out[P[i]] = input[i]
      /\ \A i, j \in DOMAIN input : i < j <=> P[i] < P[j]
  BY LaidPlaces
<1>2. s \in DOMAIN input /\ e \in DOMAIN input /\ s \in Nat /\ e \in Nat /\ s <= e
  BY LaidRound
<1>3. /\ E \in DOMAIN out /\ P[e] <= E /\ E \in Nat
      /\ IsInterrupted(k) => out[E] = SyntheticMessage(input, observations[k])
  BY LaidNext
<1>4. P[s] \in Nat /\ P[e] \in Nat /\ P[s] <= P[e]
  <2>1. CASE s = e
    BY <1>1, <1>2, <2>1
  <2>2. CASE s # e
    <3>1. s < e
      BY <1>2, <2>2
    <3> QED
      BY <1>1, <1>2, <3>1
  <2> QED
    BY <2>1, <2>2
<1>5. ASSUME NEW q \in P[s] + 1..E
      PROVE  \/ \E i \in s + 1..e : q = P[i] /\ out[q] = input[i]
             \/ /\ IsInterrupted(k) /\ q = P[e] + 1
                /\ out[q] = SyntheticMessage(input, observations[k])
  <2>1. q \in DOMAIN out /\ P[s] < q /\ q <= E
    <3>1. q \in Nat /\ P[s] < q /\ q <= E /\ 1 <= q
      BY <1>3, <1>4
    <3> HIDE DEF E
    <3> QED
      BY <1>1, <1>3, <3>1
  <2>2. \/ \E i \in DOMAIN input : q = P[i] /\ out[q] = input[i] /\ s < i /\ i <= e
        \/ /\ IsInterrupted(k) /\ q = P[e] + 1
           /\ out[q] = SyntheticMessage(input, observations[k])
    BY <2>1, LaidBlock
  <2>3. \A i \in DOMAIN input : s < i /\ i <= e => i \in s + 1..e
    BY <1>1, <1>2
  <2> QED
    BY <2>2, <2>3
<1>6. ASSUME NEW i \in s + 1..e
      PROVE  P[i] \in P[s] + 1..E /\ out[P[i]] = input[i]
  <2> HIDE DEF E
  <2>1. i \in DOMAIN input /\ s < i /\ ~(e < i)
    BY <1>1, <1>2
  <2>2. P[s] < P[i] /\ ~(P[e] < P[i]) /\ P[i] \in Nat
    BY <1>1, <1>2, <2>1
  <2> QED
    BY <1>1, <1>3, <1>4, <2>1, <2>2
<1>7. ASSUME IsInterrupted(k)
      PROVE  E \in P[s] + 1..E /\ out[E] = SyntheticMessage(input, observations[k])
  <2>1. E = P[e] + 1
    BY <1>7
  <2>2. E \in P[s] + 1..E
    BY <1>4, <2>1
  <2> QED
    BY <1>3, <1>7, <2>2
<1> HIDE DEF E
<1> QED
  BY <1>5, <1>6, <1>7 DEF E

\* Every round of the projection is valid.
LEMMA LaidValid ==
    ASSUME NEW P, Laid(P), NEW k \in 1..Len(observations)
    PROVE  RoundValid(out, P[observations[k].start])
<1> DEFINE o == observations[k]
           s == o.start
           e == o.end
           E == P[e] + (IF IsInterrupted(k) THEN 1 ELSE 0)
           x == SyntheticMessage(input, o)
           calls == input[s].calls
           a == P[s] + 1
           Real(q) == \E i \in s + 1..e : q = P[i] /\ out[q] = input[i]
           New(q) == IsInterrupted(k) /\ q = P[e] + 1 /\ out[q] = x
<1>1. ContiguousToolBlockEnd(out, P[s]) = E /\ e = ContiguousToolBlockEnd(input, s) /\ s \in DOMAIN input
  BY LaidEnd, LaidRound
<1>2. out[P[s]] = input[s]
  BY <1>1, LaidPlaces
<1>3. \A q \in a..E : Real(q) \/ New(q)
  BY LaidTools
<1>4. /\ RoundValid(input, s)
      /\ Distinct(o.missing)
      /\ Elements(o.missing) = Elements(calls) \ Answered(input, s + 1, e)
      /\ IsInterrupted(k) => o.missing # << >>
  BY LaidMissing
<1>5. x.role = "tool" /\ x.results = o.missing /\ ~HasToolCalls(x)
  BY SyntheticParts
<1> HIDE DEF x, E, a, s, e
<1>6. /\ input[s].role = "assistant" /\ CallIDsValid(calls)
      /\ \A i \in s + 1..e : input[i].role = "tool" /\ input[i].results # << >>
      /\ \A i \in s + 1..e : Elements(input[i].results) \subseteq Elements(calls)
      /\ \A i, j \in s + 1..e : \A p \in DOMAIN input[i].results, r \in DOMAIN input[j].results :
           input[i].results[p] = input[j].results[r] => i = j /\ p = r
      /\ \A i \in s + 1..e : ~HasToolCalls(input[i])
  BY <1>1, <1>4 DEF RoundValid, ResultsValid
<1> HIDE DEF calls
<1>7. \A q \in a..E : out[q].role = "tool" /\ out[q].results # << >> /\ ~HasToolCalls(out[q])
  <2> TAKE q \in a..E
  <2>1. CASE Real(q)
    BY <1>6, <2>1
  <2>2. CASE New(q)
    BY <1>4, <1>5, <2>2
  <2> QED
    BY <1>3, <2>1, <2>2
<1>8. \A q \in a..E : Elements(out[q].results) \subseteq Elements(calls)
  <2> TAKE q \in a..E
  <2>1. CASE Real(q)
    BY <1>6, <2>1
  <2>2. CASE New(q)
    BY <1>4, <1>5, <2>2
  <2> QED
    BY <1>3, <2>1, <2>2
<1>9. ASSUME NEW q \in a..E, NEW t \in a..E,
             NEW p \in DOMAIN out[q].results, NEW r \in DOMAIN out[t].results,
             out[q].results[p] = out[t].results[r]
      PROVE  q = t /\ p = r
  <2>0. \A i \in s + 1..e : \A u \in DOMAIN input[i].results : input[i].results[u] \notin Elements(o.missing)
    <3> SUFFICES ASSUME NEW i \in s + 1..e, NEW u \in DOMAIN input[i].results
                 PROVE  input[i].results[u] \notin Elements(o.missing)
      OBVIOUS
    <3>1. input[i].results[u] \in Elements(input[i].results)
      BY DEF Elements
    <3>2. Elements(input[i].results) \subseteq Answered(input, s + 1, e)
      BY DEF Answered
    <3> QED
      BY <1>4, <3>1, <3>2
  <2>1. CASE Real(q) /\ Real(t)
    BY <1>6, <1>9, <2>1
  <2>2. CASE Real(q) /\ New(t)
    BY <1>5, <1>9, <2>0, <2>2 DEF Elements
  <2>3. CASE New(q) /\ Real(t)
    BY <1>5, <1>9, <2>0, <2>3 DEF Elements
  <2>4. CASE New(q) /\ New(t)
    BY <1>4, <1>5, <1>9, <2>4 DEF Distinct
  <2> QED
    BY <1>3, <2>1, <2>2, <2>3, <2>4
<1>10. ResultsValid(out, a, E, calls)
  BY <1>7, <1>8, <1>9 DEF ResultsValid
<1>11. RoundValid(out, P[s])
  BY <1>1, <1>2, <1>6, <1>7, <1>10 DEF RoundValid, a, calls
<1> QED
  BY <1>11 DEF s

\* What is answered in a round of the projection.
LEMMA LaidAnswered ==
    ASSUME NEW P, Laid(P), NEW k \in 1..Len(observations)
    PROVE  LET s == observations[k].start
           IN  /\ IsInterrupted(k) => LocalState(out, P[s]) = "complete"
               /\ ~IsInterrupted(k) => LocalState(out, P[s]) = LocalState(input, s)
<1> DEFINE o == observations[k]
           s == o.start
           e == o.end
           E == P[e] + (IF IsInterrupted(k) THEN 1 ELSE 0)
           x == SyntheticMessage(input, o)
           calls == input[s].calls
           a == P[s] + 1
           before == Answered(input, s + 1, e)
           after == Answered(out, a, E)
<1>1. ContiguousToolBlockEnd(out, P[s]) = E /\ e = ContiguousToolBlockEnd(input, s) /\ s \in DOMAIN input
  BY LaidEnd, LaidRound
<1>2. out[P[s]] = input[s]
  BY <1>1, LaidPlaces
<1>3. /\ \A q \in a..E :
           \/ \E i \in s + 1..e : q = P[i] /\ out[q] = input[i]
           \/ IsInterrupted(k) /\ q = P[e] + 1 /\ out[q] = x
      /\ \A i \in s + 1..e : P[i] \in a..E /\ out[P[i]] = input[i]
      /\ IsInterrupted(k) => E \in a..E /\ out[E] = x
  BY LaidTools
<1>4. Elements(o.missing) = Elements(calls) \ before
  BY LaidMissing
<1>5. x.results = o.missing
  BY SyntheticParts
<1> HIDE DEF x, E, a, s, e
<1>6. before \subseteq after
  BY <1>3 DEF Answered
<1>7. IsInterrupted(k) => Elements(o.missing) \subseteq after
  BY <1>3, <1>5 DEF Answered
<1>8. ~IsInterrupted(k) => after \subseteq before
  BY <1>3 DEF Answered
<1>9. /\ LocalState(out, P[s]) = IF Elements(calls) \subseteq after THEN "complete" ELSE "pending"
      /\ LocalState(input, s) = IF Elements(calls) \subseteq before THEN "complete" ELSE "pending"
  BY <1>1, <1>2 DEF LocalState, a
<1> HIDE DEF before, after, calls
<1>10. IsInterrupted(k) => LocalState(out, P[s]) = "complete"
  BY <1>4, <1>6, <1>7, <1>9
<1>11. ~IsInterrupted(k) => LocalState(out, P[s]) = LocalState(input, s)
  BY <1>6, <1>8, <1>9
<1> QED
  BY <1>10, <1>11 DEF s

\* The projection is a valid history.
LEMMA LaidLayout ==
    ASSUME NEW P, Laid(P)
    PROVE  LayoutValid(out)
<1>1. /\ \A i \in DOMAIN input : P[i] \in Nat /\ P[i] \in DOMAIN out /\ out[P[i]] = input[i]
      /\ \A i, j \in DOMAIN input : i < j <=> P[i] < P[j]
      /\ DOMAIN input \subseteq Nat
  BY LaidPlaces
<1>2. Opens(out) = {P[s] : s \in Opens(input)}
  BY OpensLaid
<1>3. \A s \in Opens(input) : s \in DOMAIN input /\ \E k \in 1..Len(observations) : observations[k].start = s
  BY DEF Laid, Opens
<1>4. ASSUME NEW r \in Opens(out)
      PROVE  RoundValid(out, r)
  <2>1. PICK s \in Opens(input) : r = P[s]
    BY <1>2
  <2> QED
    BY <1>3, <2>1, LaidValid
<1>5. ASSUME NEW r \in Opens(out), NEW t \in Opens(out), out[r].id = out[t].id
      PROVE  r = t \/ out[r].id = NoID
  <2>1. PICK s \in Opens(input) : r = P[s]
    BY <1>2
  <2>2. PICK u \in Opens(input) : t = P[u]
    BY <1>2
  <2>3. input[s].id = input[u].id /\ out[r].id = input[s].id
    BY <1>1, <1>3, <1>5, <2>1, <2>2
  <2>4. s = u \/ input[s].id = NoID
    BY <2>3 DEF Laid, LayoutValid
  <2> QED
    BY <2>1, <2>2, <2>3, <2>4
<1>6. ASSUME NEW k \in 1..Len(observations), NEW q \in DOMAIN out, out[q].role = "tool",
             P[observations[k].start] < q,
             q <= P[observations[k].end] + (IF IsInterrupted(k) THEN 1 ELSE 0)
      PROVE  InToolBlock(out, q)
  <2>1. P[observations[k].start] \in Opens(out)
    BY <1>2 DEF Laid
  <2>2. q <= ContiguousToolBlockEnd(out, P[observations[k].start])
    BY <1>6, LaidEnd
  <2> QED
    BY <1>6, <2>1, <2>2 DEF InToolBlock
<1>7. ASSUME NEW q \in DOMAIN out
      PROVE  InToolBlock(out, q) \/ (out[q].role # "tool" /\ out[q].results = << >>)
  <2>1. CASE \E i \in DOMAIN input : q = P[i]
    <3>1. PICK i \in DOMAIN input : q = P[i]
      BY <2>1
    <3>2. out[q] = input[i]
      BY <1>1, <3>1
    <3>3. CASE InToolBlock(input, i)
      <4>1. PICK s \in Opens(input) : s < i /\ i <= ContiguousToolBlockEnd(input, s)
        BY <3>3 DEF InToolBlock
      <4>2. PICK k \in 1..Len(observations) : observations[k].start = s
        BY <1>3
      <4> DEFINE e == observations[k].end
      <4>3. e = ContiguousToolBlockEnd(input, s) /\ e \in DOMAIN input /\ s \in DOMAIN input
        BY <4>2, LaidRound
      <4>4. P[s] < P[i] /\ ~(e < i)
        BY <1>1, <4>1, <4>3
      <4>5. ~(P[e] < P[i]) /\ P[e] \in Nat /\ P[i] \in Nat
        BY <1>1, <4>3, <4>4
      <4> HIDE DEF e
      <4>6. P[i] <= P[e] + (IF IsInterrupted(k) THEN 1 ELSE 0)
        BY <4>5
      <4>7. out[q].role = "tool"
        BY <3>2, <3>3 DEF InToolBlock
      <4> QED
        BY <1>6, <3>1, <4>2, <4>4, <4>6, <4>7 DEF e
    <3>4. CASE ~InToolBlock(input, i)
      BY <3>2, <3>4 DEF Laid, LayoutValid
    <3> QED
      BY <3>3, <3>4
  <2>2. CASE \E j \in 1..Len(observations) :
               /\ IsInterrupted(j) /\ q = P[observations[j].end] + 1
               /\ out[q] = SyntheticMessage(input, observations[j])
    <3>1. PICK j \in 1..Len(observations) :
               /\ IsInterrupted(j) /\ q = P[observations[j].end] + 1
               /\ out[q] = SyntheticMessage(input, observations[j])
      BY <2>2
    <3>2. out[q].role = "tool"
      BY <3>1, SyntheticParts
    <3> DEFINE s == observations[j].start
               e == observations[j].end
    <3>3. s \in DOMAIN input /\ e \in DOMAIN input /\ s \in Nat /\ e \in Nat /\ s <= e
      BY LaidRound
    <3> HIDE DEF s, e
    <3>4. P[s] \in Nat /\ P[e] \in Nat /\ P[s] <= P[e]
      <4>1. CASE s = e
        BY <1>1, <3>3, <4>1
      <4>2. CASE s # e
        <5>1. s < e
          BY <3>3, <4>2
        <5> QED
          BY <1>1, <3>3, <5>1
      <4> QED
        BY <4>1, <4>2
    <3>5. q = P[e] + 1
      BY <3>1 DEF e
    <3>6. P[s] < q /\ q <= P[e] + 1
      BY <3>4, <3>5
    <3> QED
      BY <1>6, <3>1, <3>2, <3>6 DEF s, e
  <2> QED
    BY <2>1, <2>2, LaidKinds
<1> QED
  BY <1>4, <1>5, <1>7 DEF LayoutValid

\* A round pending in the projection was left pending on purpose.
LEMMA LaidPending ==
    ASSUME NEW P, Laid(P), NEW r \in Opens(out), LocalState(out, r) = "pending"
    PROVE  declared[out[r].id] \in {"none", "pending"}
<1>1. PICK s \in Opens(input) : r = P[s]
  BY OpensLaid
<1>2. PICK k \in 1..Len(observations) : observations[k].start = s
  BY DEF Laid
<1>3. RoundOK(observations[k]) /\ observations[k].id = input[s].id /\ s \in DOMAIN input
  BY <1>2, LaidRound
<1>4. ~IsInterrupted(k) /\ LocalState(input, s) = "pending"
  BY <1>1, <1>2, LaidAnswered
<1>5. declared[observations[k].id] \in {"none", "pending"}
  BY <1>2, <1>3, <1>4, InterruptedPending
<1>6. out[r] = input[s]
  BY <1>1, <1>3, LaidPlaces
<1> QED
  BY <1>3, <1>5, <1>6

\* There are as many rounds as before.
LEMMA LaidCount ==
    ASSUME NEW P, Laid(P)
    PROVE  Cardinality(Opens(out)) = Cardinality(Opens(input))
<1> DEFINE f == [s \in Opens(input) |-> P[s]]
<1>1. Opens(input) \subseteq DOMAIN input
  BY DEF Opens
<1>2. IsFiniteSet(Opens(input))
  <2>1. DOMAIN input = 1..Len(input) /\ Len(input) \in Nat
    BY LaidPlaces
  <2>2. IsFiniteSet(1..Len(input))
    BY <2>1, FS_Interval
  <2> QED
    BY <1>1, <2>1, <2>2, FS_Subset
<1>3. Opens(out) = {P[s] : s \in Opens(input)}
  BY OpensLaid
<1>4. \A s, t \in Opens(input) : P[s] = P[t] => s = t
  BY <1>1, LaidPlaces
<1>5. f \in Bijection(Opens(input), Opens(out))
  BY <1>3, <1>4 DEF Bijection, Injection, Surjection, IsInjective
<1> HIDE DEF f
<1>6. ExistsBijection(Opens(input), Opens(out))
  BY <1>5 DEF ExistsBijection
<1> QED
  BY <1>2, <1>6, FS_Bijection

\* The synthetic messages are exactly what the projection adds.
LEMMA LaidAdded ==
    ASSUME NEW P, Laid(P), DOMAIN observations = 1..Len(observations),
           Kept(out, Elements(input)) = input
    PROVE  Kept(out, Range(out) \ {SyntheticMessage(input, o) : o \in Interrupted}) = input
<1> DEFINE Added == {SyntheticMessage(input, o) : o \in Interrupted}
           S == Range(out) \ Added
<1>1. Interrupted = {observations[k] : k \in {k \in 1..Len(observations) : IsInterrupted(k)}}
  BY DEF Interrupted, IsInterrupted, Range
<1>2. Added = {SyntheticMessage(input, observations[k]) : k \in {k \in 1..Len(observations) : IsInterrupted(k)}}
  BY <1>1
<1>3. ASSUME NEW q \in DOMAIN out
      PROVE  out[q] \in Elements(input) <=> out[q] \notin Added
  <2>1. \A x \in Added : x \notin Elements(input)
    BY <1>2 DEF Laid
  <2>2. CASE \E i \in DOMAIN input : q = P[i]
    <3>1. out[q] \in Elements(input)
      BY <2>2, LaidPlaces DEF Elements
    <3> QED
      BY <2>1, <3>1
  <2>3. CASE \E j \in 1..Len(observations) :
               /\ IsInterrupted(j) /\ q = P[observations[j].end] + 1
               /\ out[q] = SyntheticMessage(input, observations[j])
    <3>1. out[q] \in Added
      BY <1>2, <2>3
    <3> QED
      BY <2>1, <3>1
  <2> QED
    BY <2>2, <2>3, LaidKinds
<1> HIDE DEF Added
<1>4. Elements(out) \cap Elements(input) = Elements(out) \cap S
  BY <1>3 DEF Elements, Range
<1>5. out \in Seq(Range(out))
  BY DEF Laid, IsSequence
<1>6. Kept(out, Elements(input)) = Kept(out, S)
  <2> HIDE DEF S
  <2> QED
    BY <1>4, <1>5, KeptSame
<1> QED
  BY <1>6 DEF Added

-----------------------------------------------------------------------------
(* The theorems *)

\* The scan accepts exactly the valid histories, and the projection of one is
\* valid, with the same rounds and the source as what is not synthetic in it.
LEMMA InvExact ==
    ASSUME Inv
    PROVE  RepairExact
<1>1. ASSUME pc \in {"decide", "copy"} \/ answer = "repaired"
      PROVE  /\ LayoutValid(input)
             /\ {o.start : o \in Range(observations)} = Opens(input)
             /\ \A i \in 1..Len(observations) - 1 : observations[i].end < observations[i + 1].start
  <2>1. ScannedTo(Len(input) + 1)
    BY <1>1 DEF Inv, ScanOK
  <2>2. Scanned /\ Len(observations) \in Nat /\ DOMAIN observations = 1..Len(observations)
    BY <2>1, ScannedOnce
  <2>3. /\ LayoutValid(input)
        /\ \A s \in Opens(input) : \E k \in 1..Len(observations) : observations[k].start = s
        /\ \A k \in 1..Len(observations) : observations[k].start \in Opens(input)
    BY <2>1, ScanExact
  <2>4. Range(observations) = {observations[k] : k \in 1..Len(observations)}
    BY <2>2 DEF Range
  <2>5. {o.start : o \in Range(observations)} = Opens(input)
    BY <2>3, <2>4
  <2>6. \A i \in 1..Len(observations) - 1 : i \in 1..Len(observations) /\ i + 1 \in 1..Len(observations) /\ i < i + 1
    BY <2>2
  <2>7. \A i \in 1..Len(observations) - 1 : observations[i].end < observations[i + 1].start
    BY <2>2, <2>6 DEF Scanned
  <2> QED
    BY <2>3, <2>5, <2>7
<1>2. ASSUME answer = "repaired"
      PROVE  /\ LayoutValid(out)
             /\ \A s \in Opens(out) :
                  LocalState(out, s) = "pending" => declared[out[s].id] \in {"none", "pending"}
             /\ Cardinality(Opens(out)) = Cardinality(Opens(input))
             /\ Kept(out, Range(out) \ {SyntheticMessage(input, o) : o \in Interrupted}) = input
  <2>1. PICK P : Laid(P)
    BY <1>2, RepairedLaid
  <2>2. Kept(out, Elements(input)) = input
    BY <1>2, RepairedLaid
  <2>3. DOMAIN observations = 1..Len(observations)
    BY SequenceDomain DEF Inv, ScanOK
  <2> QED
    BY <2>1, <2>2, <2>3, LaidLayout, LaidPending, LaidCount, LaidAdded
<1>3. answer = "invalid round" => ~LayoutValid(input)
  BY DEF Inv, ScanOK
<1> QED
  BY <1>1, <1>2, <1>3 DEF RepairExact

\* The first message of a round tells rounds with an identity apart.
LEMMA SameSynthetic ==
    ASSUME NEW P, Laid(P), NEW j \in 1..Len(observations), NEW k \in 1..Len(observations),
           SyntheticMessage(input, observations[j]) = SyntheticMessage(input, observations[k]),
           observations[j].id # NoID
    PROVE  j = k
<1> DEFINE a == SubSeq(input, observations[j].start, observations[j].end)
           b == SubSeq(input, observations[k].start, observations[k].end)
<1>1. SyntheticID(a) = SyntheticID(b)
  BY DEF SyntheticMessage
<1>2. a = b
  BY <1>1 DEF SyntheticID
<1>3. ASSUME NEW i \in 1..Len(observations)
      PROVE  SubSeq(input, observations[i].start, observations[i].end)[1] = input[observations[i].start]
  <2> DEFINE s == observations[i].start
             e == observations[i].end
  <2>1. s \in Nat /\ e \in Nat /\ s <= e /\ s \in Opens(input)
    BY LaidRound
  <2> HIDE DEF s, e
  <2>2. SubSeq(input, s, e) = [m \in 1..(e - s + 1) |-> input[s + m - 1]]
    BY <2>1 DEF SubSeq
  <2>3. 1 \in 1..(e - s + 1) /\ s + 1 - 1 = s
    BY <2>1
  <2> QED
    BY <2>2, <2>3 DEF s, e
<1>4. input[observations[j].start] = input[observations[k].start]
  BY <1>2, <1>3
<1>5. /\ observations[j].start \in Opens(input) /\ observations[k].start \in Opens(input)
      /\ input[observations[j].start].id # NoID
  BY LaidRound
<1>6. observations[j].start = observations[k].start
  BY <1>4, <1>5 DEF Laid, LayoutValid
<1> QED
  BY <1>6, LaidApart

\* What the projection adds belongs to the rounds that decisions name.
LEMMA InvHonoured ==
    ASSUME Inv
    PROVE  DecisionsHonoured
<1> SUFFICES ASSUME answer = "repaired"
             PROVE  decisions = {input[s].id : s \in {s \in Opens(input) :
                        SyntheticMessage(input, Observation(input, s)) \in Range(out) \ Range(input)}}
  BY DEF DecisionsHonoured
<1>1. PICK P : Laid(P)
  BY RepairedLaid
<1>2. DecisionsMatch
  BY RepairedLaid
<1>3. DOMAIN observations = 1..Len(observations)
  BY SequenceDomain DEF Inv, ScanOK
<1>4. Interrupted = {observations[k] : k \in {k \in 1..Len(observations) : IsInterrupted(k)}}
  BY <1>3 DEF Interrupted, IsInterrupted, Range
<1>5. Range(input) = Elements(input)
  BY DEF Range, Elements
<1>6. ASSUME NEW id \in decisions
      PROVE  \E s \in Opens(input) :
               /\ id = input[s].id
               /\ SyntheticMessage(input, Observation(input, s)) \in Range(out) \ Range(input)
  <2>1. PICK k \in 1..Len(observations) : IsInterrupted(k) /\ observations[k].id = id
    BY <1>2, <1>4 DEF DecisionsMatch
  <2>2. /\ observations[k].start \in Opens(input) /\ observations[k].id = input[observations[k].start].id
        /\ observations[k] = Observation(input, observations[k].start)
    BY <1>1, LaidRound
  <2>3. SyntheticMessage(input, observations[k]) \notin Range(input)
    BY <1>1, <1>5, <2>1 DEF Laid
  <2> DEFINE E == P[observations[k].end] + (IF IsInterrupted(k) THEN 1 ELSE 0)
  <2>4. E \in DOMAIN out /\ out[E] = SyntheticMessage(input, observations[k])
    BY <1>1, <2>1, LaidNext
  <2>5. SyntheticMessage(input, observations[k]) \in Range(out)
    BY <2>4 DEF Range
  <2> QED
    BY <2>1, <2>2, <2>3, <2>5
<1>7. ASSUME NEW s \in Opens(input),
             SyntheticMessage(input, Observation(input, s)) \in Range(out) \ Range(input)
      PROVE  input[s].id \in decisions
  <2>1. PICK k \in 1..Len(observations) : observations[k].start = s
    BY <1>1 DEF Laid
  <2>2. observations[k] = Observation(input, s) /\ observations[k].id = input[s].id
    BY <1>1, <2>1, LaidRound
  <2>3. PICK q \in DOMAIN out : out[q] = SyntheticMessage(input, observations[k])
    BY <1>7, <2>2 DEF Range
  <2>4. out[q] \notin Elements(input)
    BY <1>5, <1>7, <2>2, <2>3
  <2>5. ~ \E i \in DOMAIN input : q = P[i]
    BY <1>1, <2>4, LaidPlaces DEF Elements
  <2>6. PICK j \in 1..Len(observations) :
           IsInterrupted(j) /\ out[q] = SyntheticMessage(input, observations[j])
    BY <1>1, <2>5, LaidKinds
  <2>7. observations[j] \in Interrupted
    BY <1>4, <2>6
  <2>8. observations[j].id # NoID /\ observations[j].id \in decisions
    BY <1>2, <2>7 DEF DecisionsMatch
  <2>9. j = k
    BY <1>1, <2>3, <2>6, <2>8, SameSynthetic
  <2> QED
    BY <2>2, <2>8, <2>9
<1> QED
  BY <1>6, <1>7

\* A repair accepts exactly the valid histories and adds to one the results its
\* interrupted rounds lack, and nothing else.
THEOREM RepairsExactly == Spec => []RepairExact
<1>1. Inv => RepairExact
  BY InvExact
<1> QED
  BY <1>1, InvHolds, PTL

\* A repair adds the messages of the rounds that decisions name, all of them.
THEOREM DecisionsFollowed == Spec => []DecisionsHonoured
<1>1. Inv => DecisionsHonoured
  BY InvHonoured
<1> QED
  BY <1>1, InvHolds, PTL

=============================================================================
