-------------------------- MODULE ChatTerminalProofs --------------------------
(***************************************************************************)
(* The chat host's terminal commit, for every set of hosts, turns and      *)
(* responses and every number of retries: a turn is recorded once and a    *)
(* caller told of success has its own answer recorded, a retry of a pair   *)
(* that stands is recognised, and continuation state is bound to the       *)
(* prefix that is stored.                                                  *)
(***************************************************************************)
EXTENDS ChatTerminal, SequenceTheorems, TLAPS

-----------------------------------------------------------------------------
(* The inductive invariant *)

Stages == {"idle", "validate", "load", "decide", "commit"} \cup Returned

\* Messages carry prefixes that carry messages, so no set of messages is named.
IsSequence(h) == h \in Seq(Range(h))

\* Neither half of turn t is in h.
Lacks(h, t) == ~HasID(h, TurnID(t)) /\ ~HasID(h, ResultID(t))

\* The result of j when the messages before stand in front of its turn.
ResultBound(sys, before, j) ==
    [id |-> ResultID(j.turn), content |-> j.response,
     prefix |-> IF j.response \in Stateful THEN <<sys>> \o before \o <<TurnMessage(j)>> ELSE Unbound]

\* The pair of j is in h, bound to what stands before it.
Stands(sys, h, j) ==
    \E i, k \in DOMAIN h :
        h[i] = TurnMessage(j) /\ h[k] = ResultBound(sys, SubSeq(h, 1, i - 1), j)

UniqueIDs(h) ==
    \A i, k \in DOMAIN h : h[i].id = h[k].id /\ h[i].id # NoteID => i = k

\* A turn and its result come from one commit.
Paired(h, pairs) ==
    \A t \in Turns : \A i, k \in DOMAIN h :
        h[i].id = TurnID(t) /\ h[k].id = ResultID(t) =>
            [turn |-> t, body |-> h[i].content, response |-> h[k].content] \in pairs

HistoryOK(h, pairs) == IsSequence(h) /\ UniqueIDs(h) /\ Paired(h, pairs)

TypeOK ==
    /\ version \in Nat
    /\ job \in [Hosts -> Jobs \cup {NoJob}]
    /\ expected \in [Hosts -> Nat]
    /\ pc \in [Hosts -> Stages]
    /\ attempts \in [Hosts -> Nat]
    /\ snapshot = [h \in Hosts |-> snapshot[h]]
    /\ landed \in SUBSET Hosts

\* A loaded snapshot is the stored conversation as long as its revision is the
\* stored one.
SnapshotOfRevision(h) ==
    pc[h] \in {"decide", "commit"} =>
        /\ snapshot[h].version \in Nat
        /\ snapshot[h].version <= version
        /\ HistoryOK(snapshot[h].history, ledger)
        /\ snapshot[h].version = version =>
             snapshot[h].system = system /\ snapshot[h].history = history

\* A host that commits has found the expected revision without its turn.
CommitReady(h) ==
    pc[h] = "commit" => /\ snapshot[h].version = expected[h]
                        /\ Lacks(snapshot[h].history, job[h].turn)

\* A pair that has landed stands, is seen by loads from then on, and was not
\* preceded by a load that saw another host's answer to the turn.
LandedStands(h) ==
    h \in landed => /\ Stands(system, history, job[h])
                    /\ pc[h] # "stale"
                    /\ pc[h] = "decide" =>
                         \/ Stands(snapshot[h].system, snapshot[h].history, job[h])
                         \/ Lacks(snapshot[h].history, job[h].turn)

HostOK(h) ==
    /\ pc[h] # "idle" => job[h] \in Jobs
    /\ h \in landed => pc[h] # "idle"
    /\ pc[h] = "ok" => job[h] \in ledger
    /\ SnapshotOfRevision(h)
    /\ CommitReady(h)
    /\ LandedStands(h)

\* A write given up by its caller fits the store as long as its revision is the
\* stored one; its host has loaded no older revision since, and if it was told
\* that its execution is stale the revision has moved on.
LateOK(w) ==
    /\ w.host \in Hosts /\ pc[w.host] # "idle" /\ w.job = job[w.host]
    /\ w.expected \in Nat /\ w.expected <= version
    /\ w.expected = version =>
         /\ Lacks(history, w.job.turn)
         /\ w.messages = <<TurnMessage(w.job), ResultBound(system, history, w.job)>>
    /\ pc[w.host] \in {"decide", "commit"} => w.expected <= snapshot[w.host].version
    /\ pc[w.host] = "stale" => w.expected < version

\* The conjunction that every step preserves.
Inv ==
    /\ TypeOK
    /\ HistoryOK(history, ledger)
    /\ \A h \in Hosts : HostOK(h)
    /\ \A w \in late : LateOK(w)

-----------------------------------------------------------------------------
(* Sequences of messages *)

\* The identities of turns, results and notes are told apart.
LEMMA IDsDiffer ==
    /\ \A t, u : TurnID(t) # ResultID(u)
    /\ \A t, u : TurnID(t) = TurnID(u) => t = u
    /\ \A t, u : ResultID(t) = ResultID(u) => t = u
    /\ \A t : TurnID(t) # NoteID /\ ResultID(t) # NoteID
BY DEF TurnID, ResultID, NoteID

LEMMA SequenceDomain ==
    ASSUME NEW h, IsSequence(h)
    PROVE  Len(h) \in Nat /\ DOMAIN h = 1..Len(h)
BY DEF IsSequence

\* g is h with the messages a and b behind it.
WithPair(h, a, b, g) ==
    /\ IsSequence(g) /\ Len(g) = Len(h) + 2
    /\ \A i \in DOMAIN h : g[i] = h[i]
    /\ g[Len(h) + 1] = a /\ g[Len(h) + 2] = b

LEMMA PairAppended ==
    ASSUME NEW h, IsSequence(h), NEW a, NEW b, NEW g, g = h \o <<a, b>>
    PROVE  WithPair(h, a, b, g)
<1> DEFINE S == Range(h) \cup {a, b}
<1>1. h \in Seq(S) /\ <<a, b>> \in Seq(S)
  BY DEF IsSequence
<1> HIDE DEF S
<1>2. /\ g \in Seq(S) /\ Len(g) = Len(h) + 2
      /\ \A i \in 1..Len(h) + 2 : g[i] = IF i <= Len(h) THEN h[i] ELSE <<a, b>>[i - Len(h)]
  BY <1>1, ConcatProperties
<1>3. IsSequence(g)
  BY <1>2, SeqOfRange DEF IsSequence
<1>4. DOMAIN h = 1..Len(h) /\ Len(h) \in Nat
  BY <1>1
<1>5. \A i \in DOMAIN h : g[i] = h[i]
  BY <1>2, <1>4
<1>6. g[Len(h) + 1] = <<a, b>>[Len(h) + 1 - Len(h)] /\ g[Len(h) + 2] = <<a, b>>[Len(h) + 2 - Len(h)]
  BY <1>2, <1>4
<1> QED
  BY <1>2, <1>3, <1>4, <1>5, <1>6 DEF WithPair

\* g is h with the message a behind it.
WithOne(h, a, g) ==
    /\ IsSequence(g) /\ Len(g) = Len(h) + 1
    /\ \A i \in DOMAIN h : g[i] = h[i]
    /\ g[Len(h) + 1] = a

LEMMA OneAppended ==
    ASSUME NEW h, IsSequence(h), NEW a
    PROVE  WithOne(h, a, Append(h, a))
BY DEF IsSequence, Range, WithOne

LEMMA OneRemoved ==
    ASSUME NEW h, IsSequence(h), NEW i \in DOMAIN h, NEW g, g = RemoveAt(h, i)
    PROVE  /\ IsSequence(g) /\ Len(g) = Len(h) - 1
           /\ \A k \in DOMAIN g : g[k] = h[IF k < i THEN k ELSE k + 1]
<1> DEFINE S == Range(h)
           s == SubSeq(h, 1, i - 1)
           t == SubSeq(h, i + 1, Len(h))
<1>1. h \in Seq(S) /\ i \in 1..Len(h) /\ Len(h) \in Nat
  BY DEF IsSequence
<1> HIDE DEF S
<1>2. /\ s \in Seq(S) /\ Len(s) = i - 1
      /\ \A k \in 1..i - 1 : s[k] = h[k]
  BY <1>1, SubSeqProperties
<1>3. /\ t \in Seq(S) /\ Len(t) = Len(h) - i
      /\ \A k \in 1..Len(h) - i : t[k] = h[i + k]
  BY <1>1, SubSeqProperties
<1> HIDE DEF s, t
<1>4. g = s \o t
  BY DEF RemoveAt, s, t
<1>5. /\ g \in Seq(S) /\ Len(g) = Len(h) - 1 /\ DOMAIN g = 1..Len(h) - 1
      /\ \A k \in 1..Len(h) - 1 : g[k] = IF k <= i - 1 THEN s[k] ELSE t[k - (i - 1)]
  <2>1. /\ g \in Seq(S) /\ Len(g) = Len(s) + Len(t)
        /\ \A k \in 1..Len(s) + Len(t) : g[k] = IF k <= Len(s) THEN s[k] ELSE t[k - Len(s)]
    BY <1>2, <1>3, <1>4, ConcatProperties
  <2>2. Len(s) + Len(t) = Len(h) - 1
    BY <1>1, <1>2, <1>3
  <2>3. DOMAIN g = 1..Len(g)
    BY <2>1
  <2> QED
    BY <1>2, <2>1, <2>2, <2>3
<1>6. IsSequence(g)
  BY <1>5, SeqOfRange DEF IsSequence
<1>7. ASSUME NEW k \in DOMAIN g
      PROVE  g[k] = h[IF k < i THEN k ELSE k + 1]
  <2>1. k \in 1..Len(h) - 1
    BY <1>5
  <2>2. CASE k < i
    BY <1>1, <1>2, <1>5, <2>1, <2>2
  <2>3. CASE k >= i
    <3>1. g[k] = t[k - (i - 1)] /\ k - (i - 1) \in 1..Len(h) - i
      BY <1>1, <1>5, <2>1, <2>3
    <3>2. t[k - (i - 1)] = h[i + (k - (i - 1))] /\ i + (k - (i - 1)) = k + 1
      BY <1>1, <1>3, <2>1, <3>1
    <3> QED
      BY <1>1, <2>1, <2>3, <3>1, <3>2
  <2> QED
    BY <1>1, <2>1, <2>2, <2>3
<1> QED
  BY <1>5, <1>6, <1>7

LEMMA LastUnique ==
    ASSUME NEW h, IsSequence(h), NEW id, NEW i \in DOMAIN h, h[i].id = id,
           \A k \in DOMAIN h : h[k].id = id => k = i
    PROVE  LastWithID(h, id) = h[i]
<1>1. DOMAIN h = 1..Len(h)
  BY DEF IsSequence
<1>2. {k \in 1..Len(h) : h[k].id = id} = {i}
  BY <1>1
<1>3. Max({i}) = i
  BY <1>1 DEF Max
<1>4. SelectLastInSeq(h, LAMBDA m : m.id = id) = i
  BY <1>2, <1>3 DEF SelectLastInSeq
<1> QED
  BY <1>4 DEF LastWithID

LEMMA FirstUnique ==
    ASSUME NEW h, IsSequence(h), NEW id, NEW i \in DOMAIN h, h[i].id = id,
           \A k \in DOMAIN h : h[k].id = id => k = i
    PROVE  SelectInSeq(h, LAMBDA m : m.id = id) = i
BY DEF IsSequence, Range, SelectInSeq, Min

\* What stands before index i is not changed by what follows it.
LEMMA SamePrefix ==
    ASSUME NEW h, IsSequence(h), NEW g, IsSequence(g), Len(g) >= Len(h),
           \A i \in DOMAIN h : g[i] = h[i], NEW n \in 0..Len(h)
    PROVE  SubSeq(g, 1, n) = SubSeq(h, 1, n)
<1> DEFINE S == Range(h)
<1>1. DOMAIN h = 1..Len(h) /\ Len(h) \in Nat /\ \A i \in 1..n : h[i] \in S /\ g[i] = h[i]
  BY SequenceDomain DEF Range
<1> HIDE DEF S
<1>2. /\ SubSeq(h, 1, n) \in Seq(S) /\ Len(SubSeq(h, 1, n)) = n
      /\ \A i \in 1..n : SubSeq(h, 1, n)[i] = h[i]
  BY <1>1, SubSeqProperties
<1>3. /\ SubSeq(g, 1, n) \in Seq(S) /\ Len(SubSeq(g, 1, n)) = n
      /\ \A i \in 1..n : SubSeq(g, 1, n)[i] = g[i]
  BY <1>1, SubSeqProperties
<1> QED
  BY <1>1, <1>2, <1>3, SeqEqual

LEMMA WholeSubSeq ==
    ASSUME NEW h, IsSequence(h)
    PROVE  SubSeq(h, 1, Len(h)) = h
<1> DEFINE S == Range(h)
<1>1. DOMAIN h = 1..Len(h) /\ Len(h) \in Nat /\ h \in Seq(S) /\ \A i \in 1..Len(h) : h[i] \in S
  BY SequenceDomain DEF IsSequence, Range
<1> HIDE DEF S
<1>2. /\ SubSeq(h, 1, Len(h)) \in Seq(S) /\ Len(SubSeq(h, 1, Len(h))) = Len(h)
      /\ \A i \in 1..Len(h) : SubSeq(h, 1, Len(h))[i] = h[i]
  BY <1>1, SubSeqProperties
<1> QED
  BY <1>1, <1>2, SeqEqual

-----------------------------------------------------------------------------
(* What CommitTerminal binds and recognises *)

\* A turn not saved yet is bound to the whole loaded history.
LEMMA BindUnsaved ==
    ASSUME NEW s, NEW j, Lacks(s.history, j.turn)
    PROVE  ResultMessage(s, j) = ResultBound(s.system, s.history, j)
BY DEF Lacks, ResultMessage, BindTerminalState, ResultBound

\* A saved turn is bound to what stands before it.
LEMMA BindSaved ==
    ASSUME NEW s, NEW j, IsSequence(s.history), UniqueIDs(s.history),
           NEW i \in DOMAIN s.history, s.history[i].id = TurnID(j.turn)
    PROVE  ResultMessage(s, j) = ResultBound(s.system, SubSeq(s.history, 1, i - 1), j)
<1>1. HasID(s.history, TurnID(j.turn))
  BY DEF HasID
<1>2. \A k \in DOMAIN s.history : s.history[k].id = TurnID(j.turn) => k = i
  BY IDsDiffer DEF UniqueIDs
<1>3. SelectInSeq(s.history, LAMBDA m : m.id = TurnID(j.turn)) = i
  BY <1>2, FirstUnique
<1> QED
  BY <1>1, <1>3 DEF ResultMessage, BindTerminalState, ResultBound

\* A pair that stands in the snapshot is recognised.
LEMMA StandingIsSaved ==
    ASSUME NEW s, NEW j, IsSequence(s.history), UniqueIDs(s.history),
           Stands(s.system, s.history, j)
    PROVE  AlreadySaved(s, j)
<1>1. PICK i \in DOMAIN s.history, k \in DOMAIN s.history :
        /\ s.history[i] = TurnMessage(j)
        /\ s.history[k] = ResultBound(s.system, SubSeq(s.history, 1, i - 1), j)
  BY DEF Stands
<1>2. s.history[i].id = TurnID(j.turn) /\ s.history[k].id = ResultID(j.turn)
  BY <1>1 DEF TurnMessage, ResultBound
<1>3. /\ \A n \in DOMAIN s.history : s.history[n].id = TurnID(j.turn) => n = i
      /\ \A n \in DOMAIN s.history : s.history[n].id = ResultID(j.turn) => n = k
  BY <1>2, IDsDiffer DEF UniqueIDs
<1>4. /\ LastWithID(s.history, TurnID(j.turn)) = s.history[i]
      /\ LastWithID(s.history, ResultID(j.turn)) = s.history[k]
  BY <1>2, <1>3, LastUnique
<1>5. ResultMessage(s, j) = s.history[k]
  BY <1>1, <1>2, BindSaved
<1>6. HasID(s.history, TurnID(j.turn)) /\ HasID(s.history, ResultID(j.turn))
  BY <1>2 DEF HasID
<1> QED
  BY <1>1, <1>4, <1>5, <1>6 DEF AlreadySaved

\* A pair that is recognised was appended.
LEMMA SavedIsRecorded ==
    ASSUME NEW s, NEW j \in Jobs, NEW pairs, HistoryOK(s.history, pairs), AlreadySaved(s, j)
    PROVE  j \in pairs
<1> USE DEF HistoryOK
<1>1. PICK i \in DOMAIN s.history : s.history[i].id = TurnID(j.turn)
  BY DEF AlreadySaved, HasID
<1>2. PICK k \in DOMAIN s.history : s.history[k].id = ResultID(j.turn)
  BY DEF AlreadySaved, HasID
<1>3. /\ \A n \in DOMAIN s.history : s.history[n].id = TurnID(j.turn) => n = i
      /\ \A n \in DOMAIN s.history : s.history[n].id = ResultID(j.turn) => n = k
  BY <1>1, <1>2, IDsDiffer DEF UniqueIDs
<1>4. /\ LastWithID(s.history, TurnID(j.turn)) = s.history[i]
      /\ LastWithID(s.history, ResultID(j.turn)) = s.history[k]
  BY <1>1, <1>2, <1>3, LastUnique
<1>5. s.history[i].content = j.body
  BY <1>4 DEF AlreadySaved, TurnMessage
<1>6. s.history[k].content = j.response
  BY <1>4 DEF AlreadySaved, ResultMessage
<1>7. [turn |-> j.turn, body |-> j.body, response |-> j.response] \in pairs
  BY <1>1, <1>2, <1>5, <1>6 DEF Paired, Jobs
<1> QED
  BY <1>7 DEF Jobs

-----------------------------------------------------------------------------
(* What the writers do to the history *)

\* Appending the pair of a turn that is missing keeps the history in order,
\* records the pair and leaves every other pair where it stands.
LEMMA PairRecorded ==
    ASSUME NEW h, NEW pairs, HistoryOK(h, pairs), NEW j \in Jobs, Lacks(h, j.turn), NEW sys,
           NEW g, WithPair(h, TurnMessage(j), ResultBound(sys, h, j), g)
    PROVE  /\ HistoryOK(g, pairs \cup {j})
           /\ Stands(sys, g, j)
           /\ \A other : Stands(sys, h, other) => Stands(sys, g, other)
<1> DEFINE a == TurnMessage(j)
           b == ResultBound(sys, h, j)
           n == Len(h)
<1>1. n \in Nat /\ DOMAIN h = 1..n
  BY SequenceDomain DEF HistoryOK
<1>2. /\ IsSequence(g) /\ Len(g) = n + 2 /\ \A i \in DOMAIN h : g[i] = h[i]
      /\ g[n + 1] = a /\ g[n + 2] = b
  BY DEF WithPair
<1>3. DOMAIN g = DOMAIN h \cup {n + 1, n + 2} /\ n + 1 \notin DOMAIN h /\ n + 2 \notin DOMAIN h
  BY <1>1, <1>2, SequenceDomain
<1>4. a.id = TurnID(j.turn) /\ a.content = j.body /\ b.id = ResultID(j.turn) /\ b.content = j.response
  BY DEF TurnMessage, ResultBound
<1> HIDE DEF a, b, n
<1>5. \A i \in DOMAIN h : h[i].id # a.id /\ h[i].id # b.id
  BY <1>4 DEF Lacks, HasID
<1>6. a.id # b.id
  BY <1>4, IDsDiffer
<1>7. UniqueIDs(g)
  BY <1>2, <1>3, <1>5, <1>6 DEF HistoryOK, UniqueIDs
<1>8. Paired(g, pairs \cup {j})
  <2> SUFFICES ASSUME NEW t \in Turns, NEW i \in DOMAIN g, NEW k \in DOMAIN g,
                      g[i].id = TurnID(t), g[k].id = ResultID(t)
               PROVE  [turn |-> t, body |-> g[i].content, response |-> g[k].content] \in pairs \cup {j}
    BY DEF Paired
  <2>1. CASE t = j.turn
    <3>1. i = n + 1 /\ k = n + 2
      BY <1>2, <1>3, <1>4, <1>5, <1>6, <2>1
    <3> QED
      BY <1>2, <1>4, <2>1, <3>1 DEF Jobs
  <2>2. CASE t # j.turn
    <3>1. TurnID(t) # a.id /\ TurnID(t) # b.id /\ ResultID(t) # a.id /\ ResultID(t) # b.id
      BY <1>4, <2>2, IDsDiffer
    <3>2. i \in DOMAIN h /\ k \in DOMAIN h
      BY <1>2, <1>3, <3>1
    <3> QED
      BY <1>2, <3>2 DEF HistoryOK, Paired
  <2> QED
    BY <2>1, <2>2
<1>9. \A m \in 0..n : SubSeq(g, 1, m) = SubSeq(h, 1, m)
  BY <1>1, <1>2, SamePrefix DEF HistoryOK, n
<1>10. Stands(sys, g, j)
  <2>1. PICK i \in DOMAIN g, k \in DOMAIN g : i = n + 1 /\ k = n + 2
    BY <1>3
  <2>2. i - 1 = n /\ n \in 0..n
    BY <1>1, <2>1
  <2>3. SubSeq(h, 1, n) = h
    BY WholeSubSeq DEF HistoryOK, n
  <2>4. SubSeq(g, 1, i - 1) = h
    BY <1>9, <2>2, <2>3
  <2>5. g[i] = TurnMessage(j) /\ g[k] = ResultBound(sys, SubSeq(g, 1, i - 1), j)
    BY <1>2, <2>1, <2>4 DEF a, b
  <2> QED
    BY <2>5 DEF Stands
<1>11. ASSUME NEW other, Stands(sys, h, other)
       PROVE  Stands(sys, g, other)
  <2>1. PICK i \in DOMAIN h, k \in DOMAIN h :
          h[i] = TurnMessage(other) /\ h[k] = ResultBound(sys, SubSeq(h, 1, i - 1), other)
    BY <1>11 DEF Stands
  <2>2. SubSeq(g, 1, i - 1) = SubSeq(h, 1, i - 1)
    BY <1>1, <1>9
  <2> QED
    BY <1>2, <1>3, <2>1, <2>2 DEF Stands
<1> QED
  BY <1>2, <1>7, <1>8, <1>10, <1>11 DEF HistoryOK

\* A note is nobody's turn or result.
LEMMA NoteAppended ==
    ASSUME NEW h, NEW pairs, HistoryOK(h, pairs), NEW g, WithOne(h, Note, g)
    PROVE  /\ HistoryOK(g, pairs)
           /\ \A sys, j : Stands(sys, h, j) => Stands(sys, g, j)
<1> DEFINE n == Len(h)
<1>1. n \in Nat /\ DOMAIN h = 1..n
  BY SequenceDomain DEF HistoryOK
<1>2. IsSequence(g) /\ Len(g) = n + 1 /\ (\A i \in DOMAIN h : g[i] = h[i]) /\ g[n + 1] = Note
  BY DEF WithOne
<1>3. DOMAIN g = DOMAIN h \cup {n + 1} /\ n + 1 \notin DOMAIN h
  BY <1>1, <1>2, SequenceDomain
<1>4. Note.id = NoteID
  BY DEF Note
<1>5. \A m \in 0..n : SubSeq(g, 1, m) = SubSeq(h, 1, m)
  BY <1>1, <1>2, SamePrefix DEF HistoryOK
<1> HIDE DEF n
<1>6. UniqueIDs(g)
  BY <1>2, <1>3, <1>4 DEF HistoryOK, UniqueIDs
<1>7. Paired(g, pairs)
  BY <1>2, <1>3, <1>4, IDsDiffer DEF HistoryOK, Paired
<1>8. ASSUME NEW sys, NEW j, Stands(sys, h, j)
      PROVE  Stands(sys, g, j)
  <2>1. PICK i \in DOMAIN h, k \in DOMAIN h :
          h[i] = TurnMessage(j) /\ h[k] = ResultBound(sys, SubSeq(h, 1, i - 1), j)
    BY <1>8 DEF Stands
  <2>2. SubSeq(g, 1, i - 1) = SubSeq(h, 1, i - 1)
    BY <1>1, <1>5
  <2> QED
    BY <1>2, <1>3, <2>1, <2>2 DEF Stands
<1> QED
  BY <1>2, <1>6, <1>7, <1>8 DEF HistoryOK

LEMMA MessageRemoved ==
    ASSUME NEW h, NEW pairs, HistoryOK(h, pairs), NEW n \in DOMAIN h, NEW g, g = RemoveAt(h, n)
    PROVE  HistoryOK(g, pairs)
<1> DEFINE f(k) == IF k < n THEN k ELSE k + 1
<1>1. IsSequence(g) /\ Len(g) = Len(h) - 1 /\ \A k \in DOMAIN g : g[k] = h[f(k)]
  BY OneRemoved DEF HistoryOK
<1>2. DOMAIN h = 1..Len(h) /\ Len(h) \in Nat /\ DOMAIN g = 1..(Len(h) - 1)
  BY <1>1, SequenceDomain DEF HistoryOK
<1>3. /\ \A k \in DOMAIN g : f(k) \in DOMAIN h
      /\ \A i, k \in DOMAIN g : f(i) = f(k) => i = k
  BY <1>2
<1> HIDE DEF f
<1>4. UniqueIDs(g)
  BY <1>1, <1>3 DEF HistoryOK, UniqueIDs
<1>5. Paired(g, pairs)
  BY <1>1, <1>3 DEF HistoryOK, Paired
<1> QED
  BY <1>1, <1>4, <1>5 DEF HistoryOK

LEMMA EmptyHistoryOK ==
    ASSUME NEW pairs
    PROVE  HistoryOK(<< >>, pairs)
BY DEF HistoryOK, IsSequence, Range, UniqueIDs, Paired

\* More pairs may have been appended since.
LEMMA LedgerGrows ==
    ASSUME NEW h, NEW pairs, HistoryOK(h, pairs), NEW more, pairs \subseteq more
    PROVE  HistoryOK(h, more)
BY DEF HistoryOK, Paired

-----------------------------------------------------------------------------
(* Every step preserves the invariant *)

\* The store is as it was or at the next revision.
Advances == UNCHANGED stored \/ version' = version + 1

\* A host that takes no part in a step.
LEMMA HostKept ==
    ASSUME Inv, NEW h \in Hosts, Advances, ledger \subseteq ledger',
           pc'[h] = pc[h], job'[h] = job[h], expected'[h] = expected[h], snapshot'[h] = snapshot[h],
           h \in landed' => pc[h] # "idle" /\ LandedStands(h)'
    PROVE  HostOK(h)'
<1>1. HostOK(h) /\ version \in Nat
  BY DEF Inv, TypeOK
<1>2. SnapshotOfRevision(h)'
  <2> SUFFICES ASSUME pc[h] \in {"decide", "commit"}
               PROVE  /\ snapshot[h].version \in Nat
                      /\ snapshot[h].version <= version'
                      /\ HistoryOK(snapshot[h].history, ledger')
                      /\ snapshot[h].version = version' =>
                           snapshot[h].system = system' /\ snapshot[h].history = history'
    BY DEF SnapshotOfRevision
  <2>1. HistoryOK(snapshot[h].history, ledger')
    BY <1>1, LedgerGrows DEF HostOK, SnapshotOfRevision
  <2>2. CASE UNCHANGED stored
    BY <1>1, <2>1, <2>2 DEF HostOK, SnapshotOfRevision, stored
  <2>3. CASE version' = version + 1
    BY <1>1, <2>1, <2>3 DEF HostOK, SnapshotOfRevision
  <2> QED
    BY <2>2, <2>3 DEF Advances
<1>3. CommitReady(h)'
  BY <1>1 DEF HostOK, CommitReady
<1>4. LandedStands(h)'
  BY DEF LandedStands
<1> QED
  BY <1>1, <1>2, <1>3, <1>4 DEF HostOK

\* A late write that stays late, whatever its host does meanwhile.
LEMMA LateKept ==
    ASSUME Inv, NEW w \in late, Advances, job'[w.host] = job[w.host], pc'[w.host] # "idle",
           pc'[w.host] \in {"decide", "commit"} => w.expected <= snapshot'[w.host].version,
           pc'[w.host] = "stale" => w.expected < version'
    PROVE  LateOK(w)'
<1>1. LateOK(w) /\ version \in Nat
  BY DEF Inv, TypeOK
<1>2. CASE UNCHANGED stored
  BY <1>1, <1>2 DEF LateOK, stored
<1>3. CASE version' = version + 1
  BY <1>1, <1>3 DEF LateOK
<1> QED
  BY <1>2, <1>3 DEF Advances

\* The late writes of hosts that take no part in a step.
LEMMA LateOfOther ==
    ASSUME Inv, NEW w \in late, Advances,
           job'[w.host] = job[w.host], pc'[w.host] = pc[w.host], snapshot'[w.host] = snapshot[w.host]
    PROVE  LateOK(w)'
<1>1. LateOK(w) /\ version \in Nat
  BY DEF Inv, TypeOK
<1>2. pc'[w.host] = "stale" => w.expected < version'
  BY <1>1 DEF LateOK, Advances, stored
<1> QED
  BY <1>1, <1>2, LateKept DEF LateOK

LEMMA InitInv == Init => Inv
<1> SUFFICES ASSUME Init PROVE Inv
  OBVIOUS
<1>1. TypeOK
  BY DEF Init, TypeOK, Stages
<1>2. HistoryOK(history, ledger)
  BY EmptyHistoryOK DEF Init
<1> QED
  BY <1>1, <1>2 DEF Init, Inv, HostOK, SnapshotOfRevision, CommitReady, LandedStands

\* Steps of a host that leave the store alone and end no call with success.
LEMMA QuietStepInv ==
    ASSUME Inv, NEW h \in Hosts, NEW stage \in Stages \ {"idle", "ok", "stale", "decide", "commit"},
           Goto(h, stage), job' \in [Hosts -> Jobs \cup {NoJob}], job'[h] \in Jobs,
           \A g \in Hosts : g # h \/ pc[h] # "idle" => job'[g] = job[g],
           expected' \in [Hosts -> Nat], \A g \in Hosts \ {h} : expected'[g] = expected[g],
           attempts' \in [Hosts -> Nat],
           UNCHANGED snapshot \/ snapshot' = [snapshot EXCEPT ![h] = NoSnapshot],
           UNCHANGED <<stored, late, ledger, landed>>
    PROVE  Inv'
<1> USE DEF Inv, Goto
<1>1. TypeOK'
  BY DEF TypeOK, stored
<1>2. HistoryOK(history, ledger)'
  BY DEF stored
<1>3. ASSUME NEW g \in Hosts, g # h
      PROVE  HostOK(g)'
  <2>1. pc'[g] = pc[g] /\ job'[g] = job[g] /\ expected'[g] = expected[g] /\ snapshot'[g] = snapshot[g]
    BY <1>3 DEF TypeOK
  <2>2. g \in landed' => pc[g] # "idle" /\ LandedStands(g)'
    BY <2>1 DEF HostOK, LandedStands, stored
  <2> QED
    BY <2>1, <2>2, HostKept DEF Advances
<1>4. pc'[h] = stage
  BY DEF TypeOK
<1>5. h \in landed => job'[h] = job[h]
  BY DEF HostOK
<1>6. HostOK(h)'
  BY <1>4, <1>5 DEF HostOK, SnapshotOfRevision, CommitReady, LandedStands, stored
<1>7. ASSUME NEW w \in late'
      PROVE  LateOK(w)'
  <2>1. w \in late /\ w.host \in Hosts /\ pc[w.host] # "idle"
    BY <1>7 DEF LateOK
  <2>2. CASE w.host = h
    BY <1>4, <2>1, <2>2, LateKept DEF Advances
  <2>3. CASE w.host # h
    BY <2>1, <2>3, LateOfOther DEF Advances, TypeOK
  <2> QED
    BY <2>2, <2>3
<1> QED
  BY <1>1, <1>2, <1>3, <1>6, <1>7

\* Most of a host's steps are of that kind.
LEMMA HostQuietInv ==
    ASSUME Inv, NEW h \in Hosts,
           CompileTurn(h) \/ Retry(h) \/ Validate(h) \/ Fail(h) \/ CommitConflict(h)
    PROVE  Inv'
<1> USE DEF Inv, Goto
<1>1. CASE CompileTurn(h)
  <2>1. PICK j \in Jobs : job' = [job EXCEPT ![h] = j]
    BY <1>1 DEF CompileTurn
  <2>2. /\ job' \in [Hosts -> Jobs \cup {NoJob}] /\ job'[h] \in Jobs
        /\ \A g \in Hosts : g # h \/ pc[h] # "idle" => job'[g] = job[g]
    BY <1>1, <2>1 DEF CompileTurn, TypeOK
  <2>3. /\ expected' \in [Hosts -> Nat] /\ \A g \in Hosts \ {h} : expected'[g] = expected[g]
        /\ attempts' \in [Hosts -> Nat]
    BY <1>1 DEF CompileTurn, TypeOK
  <2> QED
    BY <1>1, <2>2, <2>3, QuietStepInv DEF CompileTurn, Stages, Returned
<1>2. CASE Retry(h)
  <2>1. job[h] \in Jobs
    BY <1>2 DEF Retry, HostOK, Returned
  <2>2. /\ expected' \in [Hosts -> Nat] /\ \A g \in Hosts \ {h} : expected'[g] = expected[g]
        /\ attempts' \in [Hosts -> Nat]
    BY <1>2 DEF Retry, TypeOK
  <2> QED
    BY <1>2, <2>1, <2>2, QuietStepInv DEF Retry, TypeOK, Stages, Returned
<1>3. CASE Validate(h) \/ Fail(h) \/ CommitConflict(h)
  <2>1. job[h] \in Jobs
    BY <1>3 DEF Validate, Fail, CommitConflict, HostOK
  <2> QED
    BY <1>3, <2>1, QuietStepInv DEF Validate, Fail, CommitConflict, Return, TypeOK, Stages, Returned
<1> QED
  BY <1>1, <1>2, <1>3

\* What a host loads is the stored conversation, the pair of its turn if that
\* has landed included.
LEMMA LoadInv ==
    ASSUME Inv, NEW h \in Hosts, Load(h)
    PROVE  Inv'
<1> USE DEF Inv, Goto, Load, stored
<1>1. TypeOK' /\ HistoryOK(history, ledger)'
  BY DEF TypeOK, Stages
<1>2. ASSUME NEW g \in Hosts, g # h
      PROVE  HostOK(g)'
  <2>1. pc'[g] = pc[g] /\ snapshot'[g] = snapshot[g]
    BY <1>2 DEF TypeOK
  <2>2. g \in landed' => pc[g] # "idle" /\ LandedStands(g)'
    BY <2>1 DEF HostOK, LandedStands
  <2> QED
    BY <2>1, <2>2, HostKept DEF Advances
<1>3. /\ pc'[h] = "decide" /\ snapshot'[h].version = version
      /\ snapshot'[h].system = system /\ snapshot'[h].history = history
  BY DEF TypeOK, Current
<1>4. HostOK(h)'
  BY <1>1, <1>3 DEF TypeOK, HostOK, SnapshotOfRevision, CommitReady, LandedStands
<1>5. ASSUME NEW w \in late'
      PROVE  LateOK(w)'
  <2>1. CASE w.host = h
    BY <1>3, <1>5, <2>1, LateKept DEF LateOK, Advances
  <2>2. CASE w.host # h
    BY <1>5, <2>2, LateOfOther DEF LateOK, Advances, TypeOK
  <2> QED
    BY <2>1, <2>2
<1> QED
  BY <1>1, <1>2, <1>4, <1>5

\* The search of the loaded history: success only for a recorded pair, never
\* "stale" for a pair that has landed, and nothing of the turn saved when the
\* host goes on to commit.
LEMMA DecideInv ==
    ASSUME Inv, NEW h \in Hosts, Decide(h)
    PROVE  Inv'
<1> DEFINE s == snapshot[h]
           saved == \E id \in {TurnID(job[h].turn), ResultID(job[h].turn)} : HasID(s.history, id)
<1> USE DEF Inv, Goto
<1>1. /\ pc[h] = "decide" /\ job[h] \in Jobs /\ HistoryOK(s.history, ledger)
      /\ UNCHANGED <<version, system, history, late, job, expected, attempts, ledger, landed>>
  BY DEF Decide, HostOK, SnapshotOfRevision, stored
<1>2. saved <=> ~Lacks(s.history, job[h].turn)
  BY DEF Lacks
<1>3. CASE ~saved /\ s.version # expected[h] /\ Return(h, "conflict")
  BY <1>1, <1>3, QuietStepInv DEF Return, TypeOK, Stages, Returned, stored
<1>4. CASE ~(~saved /\ s.version # expected[h] /\ Return(h, "conflict"))
  <2>1. /\ pc'[h] \in {"ok", "stale", "commit"}
        /\ pc'[h] = "ok" => AlreadySaved(s, job[h])
        /\ pc'[h] = "stale" => saved /\ ~AlreadySaved(s, job[h])
        /\ pc'[h] = "commit" => ~saved /\ s.version = expected[h] /\ snapshot' = snapshot
        /\ pc' = [pc EXCEPT ![h] = pc'[h]]
        /\ snapshot' = snapshot \/ snapshot' = [snapshot EXCEPT ![h] = NoSnapshot]
    BY <1>4 DEF Decide, Return, TypeOK
  <2> HIDE DEF saved
  <2>2. TypeOK' /\ HistoryOK(history, ledger)'
    BY <1>1, <2>1 DEF TypeOK, Stages, Returned
  <2>3. ASSUME NEW g \in Hosts, g # h
        PROVE  HostOK(g)'
    <3>1. pc'[g] = pc[g] /\ snapshot'[g] = snapshot[g]
      BY <2>1, <2>3 DEF TypeOK
    <3>2. g \in landed' => pc[g] # "idle" /\ LandedStands(g)'
      BY <1>1, <3>1 DEF HostOK, LandedStands
    <3> QED
      BY <1>1, <3>1, <3>2, HostKept DEF Advances, stored
  <2>4. pc'[h] = "ok" => job[h] \in ledger
    BY <1>1, <2>1, SavedIsRecorded
  <2>5. h \in landed => pc'[h] # "stale"
    BY <1>1, <1>2, <2>1, StandingIsSaved DEF HostOK, LandedStands, HistoryOK
  <2>6. HostOK(h)'
    BY <1>1, <1>2, <2>1, <2>4, <2>5 DEF HostOK, SnapshotOfRevision, CommitReady, LandedStands
  <2>7. ASSUME NEW w \in late'
        PROVE  LateOK(w)'
    <3>1. LateOK(w) /\ w \in late
      BY <1>1, <2>7
    <3>2. CASE w.host = h
      <4>1. w.expected \in Nat /\ w.expected <= s.version /\ s.version <= version /\ s.version \in Nat
        BY <1>1, <3>1, <3>2 DEF LateOK, HostOK, SnapshotOfRevision
      <4>2. ASSUME pc'[h] = "stale"
            PROVE  w.expected < version
        <5> SUFFICES ASSUME w.expected = version PROVE FALSE
          BY <4>1 DEF TypeOK
        <5>1. s.history = history
          BY <1>1, <4>1 DEF HostOK, SnapshotOfRevision, TypeOK
        <5>2. Lacks(history, job[h].turn)
          BY <3>1, <3>2 DEF LateOK
        <5> QED
          BY <1>2, <2>1, <4>2, <5>1, <5>2
      <4> QED
        BY <1>1, <2>1, <3>1, <3>2, <4>1, <4>2, LateKept DEF Advances, stored
    <3>3. CASE w.host # h
      BY <1>1, <2>1, <3>1, <3>3, LateOfOther DEF LateOK, Advances, TypeOK, stored
    <3> QED
      BY <3>2, <3>3
  <2> QED
    BY <2>2, <2>3, <2>6, <2>7
<1> QED
  BY <1>3, <1>4

\* A write that a host is about to make fits the store as long as the revision
\* is the one it expects.
Fits(w) ==
    w.expected = version =>
        /\ Lacks(history, w.job.turn)
        /\ w.messages = <<TurnMessage(w.job), ResultBound(system, history, w.job)>>

LEMMA WriteFits ==
    ASSUME Inv, NEW h \in Hosts, pc[h] = "commit", NEW w, w = Write(h)
    PROVE  /\ w.host = h /\ w.job = job[h] /\ w.job \in Jobs
           /\ w.expected = expected[h] /\ w.expected \in Nat /\ w.expected <= version
           /\ Fits(w)
<1>1. /\ w.host = h /\ w.job = job[h] /\ w.expected = expected[h]
      /\ w.messages = <<TurnMessage(job[h]), ResultMessage(snapshot[h], job[h])>>
  BY DEF Write
<1>2. /\ job[h] \in Jobs /\ snapshot[h].version = expected[h] /\ expected[h] <= version /\ expected[h] \in Nat
      /\ Lacks(snapshot[h].history, job[h].turn)
      /\ expected[h] = version => snapshot[h].system = system /\ snapshot[h].history = history
  BY DEF Inv, TypeOK, HostOK, SnapshotOfRevision, CommitReady
<1>3. ResultMessage(snapshot[h], job[h]) = ResultBound(snapshot[h].system, snapshot[h].history, job[h])
  BY <1>2, BindUnsaved
<1> QED
  BY <1>1, <1>2, <1>3 DEF Fits

LEMMA CommitUnknownInv ==
    ASSUME Inv, NEW h \in Hosts, CommitUnknown(h)
    PROVE  Inv'
<1> USE DEF Inv, Goto, Return, CommitUnknown
<1> PICK w : w = Write(h)
  OBVIOUS
<1>1. /\ w.host = h /\ w.job = job[h] /\ w.job \in Jobs
      /\ w.expected = expected[h] /\ w.expected \in Nat /\ w.expected <= version
      /\ Fits(w)
  BY WriteFits
<1>2. /\ late' = late \cup {w} /\ pc[h] = "commit" /\ pc' = [pc EXCEPT ![h] = "failed"]
      /\ snapshot' = [snapshot EXCEPT ![h] = NoSnapshot]
      /\ UNCHANGED <<version, system, history, job, expected, attempts, ledger, landed>>
  BY DEF stored
<1>3. TypeOK' /\ HistoryOK(history, ledger)'
  BY <1>2 DEF TypeOK, Stages, Returned
<1>4. pc'[h] = "failed" /\ \A g \in Hosts \ {h} : pc'[g] = pc[g] /\ snapshot'[g] = snapshot[g]
  BY <1>2 DEF TypeOK
<1>5. ASSUME NEW g \in Hosts, g # h
      PROVE  HostOK(g)'
  <2>1. g \in landed' => pc[g] # "idle" /\ LandedStands(g)'
    BY <1>2, <1>4, <1>5 DEF HostOK, LandedStands
  <2> QED
    BY <1>2, <1>4, <1>5, <2>1, HostKept DEF Advances, stored
<1>6. HostOK(h)'
  BY <1>2, <1>4 DEF HostOK, SnapshotOfRevision, CommitReady, LandedStands
<1>7. LateOK(w)'
  BY <1>1, <1>2, <1>4 DEF LateOK, Fits
<1>8. ASSUME NEW v \in late
      PROVE  LateOK(v)'
  <2>1. CASE v.host = h
    BY <1>2, <1>4, <2>1, LateKept DEF Advances, stored
  <2>2. CASE v.host # h
    BY <1>2, <1>4, <2>2, LateOfOther DEF LateOK, Advances, stored
  <2> QED
    BY <2>1, <2>2
<1> QED
  BY <1>2, <1>3, <1>5, <1>6, <1>7, <1>8

\* A write that goes through records its pair and leaves the others standing.
LEMMA SwapRecords ==
    ASSUME Inv, NEW w, w.job \in Jobs, Fits(w), Swap(w)
    PROVE  /\ version' = version + 1 /\ system' = system
           /\ ledger' = ledger \cup {w.job} /\ landed' = landed \cup {w.host}
           /\ WithPair(history, TurnMessage(w.job), ResultBound(system, history, w.job), history')
           /\ HistoryOK(history', ledger')
           /\ Stands(system', history', w.job)
           /\ \A j : Stands(system, history, j) => Stands(system', history', j)
<1>1. /\ version' = version + 1 /\ system' = system
      /\ ledger' = ledger \cup {w.job} /\ landed' = landed \cup {w.host}
      /\ history' = history \o w.messages
      /\ w.expected = version
  BY DEF Swap, AppendMessages
<1>2. /\ Lacks(history, w.job.turn)
      /\ w.messages = <<TurnMessage(w.job), ResultBound(system, history, w.job)>>
  BY <1>1 DEF Fits
<1>3. HistoryOK(history, ledger) /\ IsSequence(history)
  BY DEF Inv, HistoryOK
<1>4. WithPair(history, TurnMessage(w.job), ResultBound(system, history, w.job), history')
  <2> DEFINE a == TurnMessage(w.job)
             b == ResultBound(system, history, w.job)
             g == history'
  <2>1. g = history \o <<a, b>>
    BY <1>1, <1>2
  <2> HIDE DEF a, b, g
  <2>2. WithPair(history, a, b, g)
    BY <1>3, <2>1, PairAppended
  <2> QED
    BY <2>2 DEF a, b, g
<1> QED
  BY <1>1, <1>2, <1>3, <1>4, PairRecorded

LEMMA CommitOkInv ==
    ASSUME Inv, NEW h \in Hosts, CommitOk(h)
    PROVE  Inv'
<1> USE DEF Inv, Goto, Return
<1> PICK w : w = Write(h)
  OBVIOUS
<1>1. w.host = h /\ w.job = job[h] /\ w.job \in Jobs /\ Fits(w)
  BY WriteFits DEF CommitOk
<1>2. Swap(w)
  BY DEF CommitOk
<1>3. /\ version' = version + 1 /\ system' = system
      /\ ledger' = ledger \cup {job[h]} /\ landed' = landed \cup {h}
      /\ HistoryOK(history', ledger')
      /\ Stands(system', history', job[h])
      /\ \A j : Stands(system, history, j) => Stands(system', history', j)
  BY <1>1, <1>2, SwapRecords
<1>4. /\ pc' = [pc EXCEPT ![h] = "ok"]
      /\ snapshot' = [snapshot EXCEPT ![h] = NoSnapshot]
      /\ UNCHANGED <<late, job, expected, attempts>>
  BY DEF CommitOk
<1>5. TypeOK'
  <2>1. version' \in Nat /\ landed' \in SUBSET Hosts
    BY <1>3 DEF TypeOK
  <2> QED
    BY <1>4, <2>1 DEF TypeOK, Stages, Returned
<1>6. pc'[h] = "ok" /\ \A g \in Hosts \ {h} : pc'[g] = pc[g] /\ snapshot'[g] = snapshot[g]
  BY <1>4 DEF TypeOK
<1>7. ASSUME NEW g \in Hosts, g # h
      PROVE  HostOK(g)'
  <2>1. g \in landed' => pc[g] # "idle" /\ LandedStands(g)'
    BY <1>3, <1>4, <1>6, <1>7 DEF HostOK, LandedStands
  <2> QED
    BY <1>3, <1>4, <1>6, <1>7, <2>1, HostKept DEF Advances
<1>8. HostOK(h)'
  BY <1>1, <1>3, <1>4, <1>6 DEF HostOK, SnapshotOfRevision, CommitReady, LandedStands
<1>9. ASSUME NEW v \in late
      PROVE  LateOK(v)'
  <2>1. CASE v.host = h
    BY <1>3, <1>4, <1>6, <2>1, LateKept DEF Advances
  <2>2. CASE v.host # h
    BY <1>3, <1>4, <1>6, <2>2, LateOfOther DEF LateOK, Advances
  <2> QED
    BY <2>1, <2>2
<1> QED
  BY <1>3, <1>4, <1>5, <1>7, <1>8, <1>9

\* A write that lands late finds its host anywhere but told that it is stale,
\* and what the host has loaded meanwhile does not have the turn.
LEMMA LateWriteInv ==
    ASSUME Inv, NEW w \in late, LateWrite(w)
    PROVE  Inv'
<1> DEFINE h == w.host
<1> USE DEF Inv
<1>1. LateOK(w) /\ w.expected = version /\ version \in Nat
  BY DEF LateWrite, Swap, TypeOK
<1>2. h \in Hosts /\ w.job = job[h] /\ job[h] \in Jobs /\ pc[h] # "idle" /\ Fits(w) /\ Lacks(history, job[h].turn)
  BY <1>1 DEF LateOK, HostOK, Fits
<1> HIDE DEF h
<1>3. /\ version' = version + 1 /\ system' = system
      /\ ledger' = ledger \cup {job[h]} /\ landed' = landed \cup {h}
      /\ HistoryOK(history', ledger')
      /\ Stands(system', history', job[h])
      /\ \A j : Stands(system, history, j) => Stands(system', history', j)
  BY <1>2, SwapRecords DEF LateWrite, h
<1>4. late' = late \ {w} /\ UNCHANGED <<job, expected, pc, attempts, snapshot>>
  BY DEF LateWrite
<1>5. TypeOK'
  BY <1>2, <1>3, <1>4 DEF TypeOK
<1>6. pc[h] # "stale"
  BY <1>1 DEF LateOK, h
<1>7. pc[h] = "decide" => Lacks(snapshot[h].history, job[h].turn)
  <2> SUFFICES ASSUME pc[h] = "decide" PROVE snapshot[h].history = history
    BY <1>2
  <2>1. w.expected <= snapshot[h].version
    BY <1>1 DEF LateOK, h
  <2> QED
    BY <1>1, <1>2, <2>1 DEF HostOK, SnapshotOfRevision
<1>8. ASSUME NEW g \in Hosts
      PROVE  HostOK(g)'
  <2>1. g \in landed' => pc[g] # "idle" /\ LandedStands(g)'
    BY <1>2, <1>3, <1>4, <1>6, <1>7 DEF HostOK, LandedStands
  <2> QED
    BY <1>3, <1>4, <2>1, HostKept DEF Advances
<1>9. ASSUME NEW v \in late
      PROVE  LateOK(v)'
  BY <1>3, <1>4, LateOfOther DEF Advances
<1> QED
  BY <1>3, <1>4, <1>5, <1>8, <1>9

\* Another writer moves the revision on, so no write under way fits any more.
LEMMA OtherInv ==
    ASSUME Inv, Other
    PROVE  Inv'
<1> USE DEF Inv, OtherWrites
<1>1. /\ version' = version + 1 /\ UNCHANGED <<late, job, expected, pc, attempts, snapshot, ledger>>
  BY DEF Other, OtherAppends, OtherClears, OtherSetsSystem, OtherRemoves
<1>2. /\ HistoryOK(history', ledger)
      /\ landed' = {} \/ (landed' = landed /\ \A j : Stands(system, history, j) => Stands(system', history', j))
  <2>1. CASE OtherAppends
    BY <2>1, OneAppended, NoteAppended DEF OtherAppends, HistoryOK
  <2>2. CASE OtherClears
    BY <2>2, EmptyHistoryOK DEF OtherClears
  <2>3. CASE OtherSetsSystem
    BY <2>3 DEF OtherSetsSystem
  <2>4. CASE OtherRemoves
    BY <2>4, MessageRemoved DEF OtherRemoves
  <2> QED
    BY <2>1, <2>2, <2>3, <2>4 DEF Other
<1>3. TypeOK'
  BY <1>1, <1>2 DEF TypeOK
<1>4. ASSUME NEW g \in Hosts
      PROVE  HostOK(g)'
  <2>1. g \in landed' => pc[g] # "idle" /\ LandedStands(g)'
    BY <1>1, <1>2 DEF HostOK, LandedStands
  <2> QED
    BY <1>1, <2>1, HostKept DEF Advances
<1>5. ASSUME NEW v \in late
      PROVE  LateOK(v)'
  BY <1>1, LateOfOther DEF Advances
<1> QED
  BY <1>1, <1>2, <1>3, <1>4, <1>5

LEMMA NextInv == Inv /\ [Next]_vars => Inv'
<1> SUFFICES ASSUME Inv, [Next]_vars
             PROVE  Inv'
  OBVIOUS
<1>1. CASE UNCHANGED vars
  BY <1>1 DEF vars, stored, Inv, TypeOK, HostOK, SnapshotOfRevision, CommitReady, LandedStands, LateOK
<1> QED
  BY <1>1, HostQuietInv, LoadInv, DecideInv, CommitOkInv, CommitUnknownInv, LateWriteInv, OtherInv
  DEF Next, Host

-----------------------------------------------------------------------------
(* The theorems *)

\* Every reachable state satisfies the inductive invariant.
THEOREM InvHolds == Spec => []Inv
<1>1. Init => Inv
  BY InitInv
<1>2. Inv /\ [Next]_vars => Inv'
  BY NextInv
<1> QED
  BY <1>1, <1>2, PTL DEF Spec

\* However often a turn is committed, with lost answers and late writes, it is
\* in the history once, and a call that succeeded has its own answer recorded.
THEOREM TurnsRecordedOnce == Spec => []RecordedOnce
<1>1. Inv => RecordedOnce
  BY DEF Inv, HistoryOK, UniqueIDs, HostOK, RecordedOnce
<1> QED
  BY <1>1, InvHolds, PTL

\* A host whose pair has landed and stands is never told that it is stale.
THEOREM RetriesRecognised == Spec => []RetryRecognised
<1>1. Inv => RetryRecognised
  BY DEF Inv, TypeOK, HostOK, LandedStands, RetryRecognised
<1> QED
  BY <1>1, InvHolds, PTL

\* A pair's turn ends the prefix that stands before its result.
LEMMA PrefixOfResult ==
    ASSUME NEW h, IsSequence(h), NEW a, NEW b, NEW g, WithPair(h, a, b, g), NEW x
    PROVE  <<x>> \o h \o <<a>> = <<x>> \o SubSeq(g, 1, Len(g) - 1)
<1> DEFINE S == Range(h) \cup {a, x}
           u == SubSeq(g, 1, Len(g) - 1)
           v == h \o <<a>>
<1>1. /\ DOMAIN h = 1..Len(h) /\ Len(h) \in Nat /\ \A i \in 1..Len(h) : h[i] \in S
      /\ h \in Seq(S) /\ <<a>> \in Seq(S) /\ <<x>> \in Seq(S) /\ a \in S
  BY SequenceDomain DEF IsSequence, Range
<1>2. /\ Len(g) - 1 = Len(h) + 1 /\ g[Len(h) + 1] = a /\ \A i \in 1..Len(h) : g[i] = h[i]
  BY <1>1 DEF WithPair
<1> HIDE DEF S
<1>3. \A i \in 1..(Len(h) + 1) : g[i] \in S
  BY <1>1, <1>2
<1>4. /\ u \in Seq(S) /\ Len(u) = Len(h) + 1 /\ \A i \in 1..(Len(h) + 1) : u[i] = g[i]
  BY <1>1, <1>2, <1>3, SubSeqProperties
<1>5. /\ v \in Seq(S) /\ Len(v) = Len(h) + 1
      /\ \A i \in 1..(Len(h) + 1) : v[i] = IF i <= Len(h) THEN h[i] ELSE <<a>>[i - Len(h)]
  BY <1>1, ConcatProperties
<1>6. (<<x>> \o h) \o <<a>> = <<x>> \o v
  BY <1>1, ConcatAssociative
<1> HIDE DEF u, v
<1>7. ASSUME NEW i \in 1..Len(u)
      PROVE  u[i] = v[i]
  <2>1. CASE i <= Len(h)
    BY <1>1, <1>2, <1>4, <1>5, <2>1
  <2>2. CASE i = Len(h) + 1
    <3>1. <<a>>[i - Len(h)] = a
      BY <1>1, <2>2
    <3> QED
      BY <1>1, <1>2, <1>4, <1>5, <2>2, <3>1
  <2> QED
    BY <1>1, <1>4, <2>1, <2>2
<1>8. u = v
  BY <1>4, <1>5, <1>7, SeqEqual
<1> QED
  BY <1>6, <1>8 DEF u

\* A write that goes through binds its state to what is stored before it.
LEMMA SwapBinds ==
    ASSUME Inv, NEW w, w.job \in Jobs, Fits(w), Swap(w),
           history'[Len(history')].prefix # Unbound
    PROVE  history'[Len(history')].prefix = <<system>> \o SubSeq(history', 1, Len(history') - 1)
<1> DEFINE b == ResultBound(system, history, w.job)
<1>1. WithPair(history, TurnMessage(w.job), b, history') /\ IsSequence(history)
  BY SwapRecords DEF Inv, HistoryOK
<1>2. history'[Len(history')] = b
  BY <1>1, SequenceDomain DEF WithPair
<1>3. b.prefix = <<system>> \o history \o <<TurnMessage(w.job)>>
  BY <1>2 DEF ResultBound
<1> HIDE DEF b
<1>4. <<system>> \o history \o <<TurnMessage(w.job)>> = <<system>> \o SubSeq(history', 1, Len(history') - 1)
  BY <1>1, PrefixOfResult
<1> QED
  BY <1>2, <1>3, <1>4

\* No other step makes the history two messages longer.
LEMMA TwoLonger ==
    ASSUME Inv, [Next]_vars, Len(history') = Len(history) + 2
    PROVE  \E w : w.job \in Jobs /\ Fits(w) /\ Swap(w)
<1>1. IsSequence(history) /\ Len(history) \in Nat
  BY SequenceDomain DEF Inv, HistoryOK
<1>2. history' # history
  BY <1>1
<1>3. ASSUME NEW h \in Hosts, Host(h)
      PROVE  \E w : w.job \in Jobs /\ Fits(w) /\ Swap(w)
  <2>1. CommitOk(h)
    BY <1>2, <1>3
    DEF Host, CompileTurn, Retry, Validate, Load, Fail, Decide, CommitConflict, CommitUnknown, stored
  <2> QED
    BY <2>1, WriteFits DEF CommitOk
<1>4. ASSUME NEW w \in late, LateWrite(w)
      PROVE  \E v : v.job \in Jobs /\ Fits(v) /\ Swap(v)
  BY <1>4 DEF Inv, LateWrite, LateOK, HostOK, Fits
<1>5. CASE Other
  <2>1. CASE OtherAppends
    <3>1. WithOne(history, Note, history')
      BY <1>1, <2>1, OneAppended DEF OtherAppends, OtherWrites
    <3> QED
      BY <1>1, <3>1 DEF WithOne
  <2>2. CASE OtherClears
    <3>1. Len(history') = 0
      BY <2>2 DEF OtherClears, OtherWrites
    <3> QED
      BY <1>1, <3>1
  <2>3. CASE OtherRemoves
    <3>1. Len(history') = Len(history) - 1
      BY <1>1, <2>3, OneRemoved DEF OtherRemoves, OtherWrites
    <3> QED
      BY <1>1, <3>1
  <2> QED
    BY <1>2, <1>5, <2>1, <2>2, <2>3 DEF Other, OtherSetsSystem, OtherWrites
<1> QED
  BY <1>2, <1>3, <1>4, <1>5 DEF Next, vars, stored

\* Continuation state is bound to the system segment and the history that are
\* stored before it, though both were loaded by an earlier call.
THEOREM StateBoundToPrefix == Spec => BoundToCommittedPrefix
<1> DEFINE Bound ==
             \A j \in ledger' :
                LET n == Len(history')
                IN  Len(history') = Len(history) + 2 /\ history'[n].id = ResultID(j.turn)
                      /\ history'[n].prefix # Unbound
                    => history'[n].prefix = <<system>> \o SubSeq(history', 1, n - 1)
<1>1. Inv /\ [Next]_vars => [Bound]_vars
  <2> SUFFICES ASSUME Inv, [Next]_vars, Len(history') = Len(history) + 2,
                      history'[Len(history')].prefix # Unbound
               PROVE  history'[Len(history')].prefix = <<system>> \o SubSeq(history', 1, Len(history') - 1)
    OBVIOUS
  <2> QED
    BY TwoLonger, SwapBinds
<1> QED
  BY <1>1, InvHolds, PTL DEF Spec, BoundToCommittedPrefix

=============================================================================
