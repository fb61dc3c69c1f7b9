--------------------------- MODULE TeamCoreProofs ---------------------------
(***************************************************************************)
(* Facts about sequences and prefixes, and what the calls of Team Core do  *)
(* to the accepted log, for the proofs about the modules built on it.      *)
(***************************************************************************)
EXTENDS TeamCore, SequenceTheorems, WellFoundedInduction, TLAPS

(***************************************************************************)
(* Sequences, without naming the set of their elements.                    *)
(***************************************************************************)
LEMMA SequenceDomain ==
  ASSUME NEW s, IsSequence(s)
  PROVE  Len(s) \in Nat /\ DOMAIN s = 1..Len(s)
  BY LenProperties DEF IsSequence

LEMMA MemberIsSequence ==
  ASSUME NEW S, NEW s \in Seq(S)
  PROVE  IsSequence(s)
  BY SeqOfRange DEF IsSequence

LEMMA EmptyIsSequence == IsSequence(<<>>) /\ Len(<<>>) = 0
  BY EmptySeq, MemberIsSequence

\* A function on 1..n is a sequence.
LEMMA FunctionIsSequence ==
  ASSUME NEW n \in Nat, NEW f, f = [i \in 1..n |-> f[i]]
  PROVE  IsSequence(f) /\ Len(f) = n
<1>1. f \in [1..n -> Range(f)]
  BY DEF Range
<1>2. f \in Seq(Range(f))
  BY <1>1, SeqDef
<1>3. QED
  BY <1>1, <1>2, LenProperties DEF IsSequence

LEMMA SequenceEqual ==
  ASSUME NEW s, NEW t, IsSequence(s), IsSequence(t), Len(s) = Len(t),
         \A i \in 1..Len(s) : s[i] = t[i]
  PROVE  s = t
<1>1. s \in Seq(Range(s) \cup Range(t)) /\ t \in Seq(Range(s) \cup Range(t))
  BY SeqMonotonic DEF IsSequence
<1>2. QED
  BY <1>1, SeqEqual

LEMMA ConcatSequence ==
  ASSUME NEW s, NEW t, IsSequence(s), IsSequence(t)
  PROVE  /\ IsSequence(s \o t)
         /\ Len(s \o t) = Len(s) + Len(t)
         /\ \A i \in 1..(Len(s) + Len(t)) :
              (s \o t)[i] = IF i <= Len(s) THEN s[i] ELSE t[i - Len(s)]
<1>1. s \in Seq(Range(s) \cup Range(t)) /\ t \in Seq(Range(s) \cup Range(t))
  BY SeqMonotonic DEF IsSequence
<1>2. QED
  BY <1>1, ConcatProperties, MemberIsSequence

LEMMA AppendSequence ==
  ASSUME NEW s, NEW x, IsSequence(s)
  PROVE  /\ IsSequence(Append(s, x))
         /\ Len(Append(s, x)) = Len(s) + 1
         /\ \A i \in 1..Len(s) : Append(s, x)[i] = s[i]
         /\ Append(s, x)[Len(s) + 1] = x
<1>1. s \in Seq(Range(s) \cup {x}) /\ x \in Range(s) \cup {x}
  BY SeqMonotonic DEF IsSequence
<1>2. /\ Append(s, x) \in Seq(Range(s) \cup {x})
      /\ Len(Append(s, x)) = Len(s) + 1
      /\ \A i \in 1..Len(s) : Append(s, x)[i] = s[i]
      /\ Append(s, x)[Len(s) + 1] = x
  BY <1>1, AppendProperties
<1>3. IsSequence(Append(s, x))
  BY <1>2, MemberIsSequence
<1>4. QED
  BY <1>2, <1>3

LEMMA SubSequence ==
  ASSUME NEW s, IsSequence(s), NEW m \in Nat \ {0}, NEW n \in Nat, n <= Len(s)
  PROVE  /\ IsSequence(SubSeq(s, m, n))
         /\ Len(SubSeq(s, m, n)) = IF m <= n THEN n - m + 1 ELSE 0
         /\ \A i \in 1..(n - m + 1) : SubSeq(s, m, n)[i] = s[m + i - 1]
<1>1. \A i \in m..n : s[i] \in Range(s)
  BY SequenceDomain DEF Range
<1>2. /\ SubSeq(s, m, n) \in Seq(Range(s))
      /\ Len(SubSeq(s, m, n)) = IF m <= n THEN n - m + 1 ELSE 0
      /\ \A i \in 1..(n - m + 1) : SubSeq(s, m, n)[i] = s[m + i - 1]
  BY <1>1, SubSeqProperties
<1>3. IsSequence(SubSeq(s, m, n))
  BY <1>2, MemberIsSequence
<1>4. QED
  BY <1>2, <1>3

LEMMA SuffixSequence ==
  ASSUME NEW s, IsSequence(s), NEW m \in Nat \ {0}
  PROVE  /\ IsSequence(SubSeq(s, m, Len(s)))
         /\ Len(SubSeq(s, m, Len(s))) = IF m <= Len(s) THEN Len(s) - m + 1 ELSE 0
<1>. DEFINE n == Len(s)
<1>1. n \in Nat /\ n <= Len(s)
  BY SequenceDomain
<1>. HIDE DEF n
<1>2. /\ IsSequence(SubSeq(s, m, n))
      /\ Len(SubSeq(s, m, n)) = IF m <= n THEN n - m + 1 ELSE 0
  BY <1>1, SubSequence
<1>3. QED
  BY <1>2 DEF n

(***************************************************************************)
(* Prefixes, index by index.                                               *)
(***************************************************************************)
LEMMA PrefixByIndex ==
  ASSUME NEW s, NEW t, IsSequence(s), IsSequence(t)
  PROVE  IsPrefix(s, t) <=>
           Len(s) <= Len(t) /\ \A i \in 1..Len(s) : s[i] = t[i]
<1>. USE SequenceDomain
<1>1. ASSUME Len(s) <= Len(t)
      PROVE  SubSeq(s, 1, Len(s)) = SubSeq(t, 1, Len(s)) <=>
               \A i \in 1..Len(s) : s[i] = t[i]
  <2>1. /\ IsSequence(SubSeq(s, 1, Len(s))) /\ IsSequence(SubSeq(t, 1, Len(s)))
        /\ Len(SubSeq(s, 1, Len(s))) = Len(s)
        /\ Len(SubSeq(t, 1, Len(s))) = Len(s)
        /\ \A i \in 1..Len(s) : /\ SubSeq(s, 1, Len(s))[i] = s[i]
                                /\ SubSeq(t, 1, Len(s))[i] = t[i]
    BY <1>1, SubSequence
  <2>2. QED
    BY <2>1, SequenceEqual
<1>2. QED
  BY <1>1 DEF IsPrefix

LEMMA PrefixReflexive ==
  ASSUME NEW s, IsSequence(s)
  PROVE  IsPrefix(s, s)
  BY PrefixByIndex, SequenceDomain

LEMMA PrefixTransitive ==
  ASSUME NEW s, NEW t, NEW u, IsSequence(s), IsSequence(t), IsSequence(u),
         IsPrefix(s, t), IsPrefix(t, u)
  PROVE  IsPrefix(s, u)
  BY PrefixByIndex, SequenceDomain

LEMMA PrefixOfConcat ==
  ASSUME NEW s, NEW t, IsSequence(s), IsSequence(t)
  PROVE  IsPrefix(s, s \o t)
<1>. DEFINE u == s \o t
<1>1. Len(s) \in Nat /\ Len(t) \in Nat
  BY SequenceDomain
<1>2. IsSequence(u) /\ Len(u) = Len(s) + Len(t)
  BY ConcatSequence
<1>3. \A i \in 1..Len(s) : u[i] = s[i]
  BY <1>1, ConcatSequence
<1>. HIDE DEF u
<1>4. IsPrefix(s, u)
  BY <1>1, <1>2, <1>3, PrefixByIndex
<1>5. QED
  BY <1>4 DEF u

\* What lies within a prefix stays where it is.
LEMMA PrefixKeepsRange ==
  ASSUME NEW s, NEW t, IsSequence(s), IsSequence(t), IsPrefix(s, t),
         NEW m \in Nat \ {0}, NEW n \in Nat, n <= Len(s)
  PROVE  SubSeq(s, m, n) = SubSeq(t, m, n)
<1>1. n <= Len(t) /\ \A i \in 1..Len(s) : s[i] = t[i]
  BY PrefixByIndex, SequenceDomain
<1>2. /\ IsSequence(SubSeq(s, m, n))
      /\ Len(SubSeq(s, m, n)) = IF m <= n THEN n - m + 1 ELSE 0
      /\ \A i \in 1..(n - m + 1) : SubSeq(s, m, n)[i] = s[m + i - 1]
  BY SubSequence
<1>3. /\ IsSequence(SubSeq(t, m, n))
      /\ Len(SubSeq(t, m, n)) = IF m <= n THEN n - m + 1 ELSE 0
      /\ \A i \in 1..(n - m + 1) : SubSeq(t, m, n)[i] = t[m + i - 1]
  BY <1>1, SubSequence
<1>4. \A i \in 1..(n - m + 1) : m + i - 1 \in 1..Len(s)
  BY SequenceDomain
<1>5. \A i \in 1..Len(SubSeq(s, m, n)) :
        SubSeq(s, m, n)[i] = SubSeq(t, m, n)[i]
  BY <1>1, <1>2, <1>3, <1>4
<1>6. QED
  BY <1>2, <1>3, <1>5, SequenceEqual

(***************************************************************************)
(* The least and the greatest of some positions of a log.                  *)
(***************************************************************************)
LEMMA LeastExists ==
  ASSUME NEW S, S \subseteq Nat, S # {}
  PROVE  \E x \in S : \A y \in S : x <= y
<1>. DEFINE less == OpToRel(<, Nat)
<1>1. IsWellFoundedOn(less, Nat)
  BY NatLessThanWellFounded
<1>. HIDE DEF less
<1>2. PICK x \in S : \A y \in S : ~(<<y, x>> \in less)
  BY <1>1, WFMin
<1>3. \A y \in S : y < x => <<y, x>> \in less
  BY DEF less, OpToRel
<1>4. \A y \in S : ~(y < x)
  BY <1>2, <1>3
<1>5. QED
  BY <1>4

LEMMA MinAndMax ==
  ASSUME NEW n \in Nat, NEW S, S \subseteq 1..n, S # {}
  PROVE  Min(S) \in S /\ Max(S) \in S
<1>1. \E x \in S : \A y \in S : x <= y
  <2>1. S \subseteq Nat
    OBVIOUS
  <2>2. QED
    BY <2>1, LeastExists
<1>2. \E x \in S : \A y \in S : x >= y
  <2>. DEFINE T == {n - y : y \in S}
  <2>1. T \subseteq Nat /\ T # {}
    <3>1. \A y \in S : n - y \in Nat
      OBVIOUS
    <3>2. T # {}
      OBVIOUS
    <3>3. QED
      BY <3>1, <3>2
  <2>2. PICK x \in T : \A y \in T : x <= y
    BY <2>1, LeastExists
  <2>3. PICK z \in S : x = n - z
    BY <2>2
  <2>4. \A y \in S : n - z <= n - y
    BY <2>2, <2>3
  <2>5. QED
    BY <2>4
<1>3. Min(S) \in S
  BY <1>1 DEF Min
<1>4. Max(S) \in S
  BY <1>2 DEF Max
<1>5. QED
  BY <1>3, <1>4
-----------------------------------------------------------------------------
(***************************************************************************)
(* What a verdict answers and asks to append.  FromTo is what its callers  *)
(* rely on: an answer stays within the log that the append leaves.         *)
(***************************************************************************)
Bounded(reply, length) ==
  /\ reply.from \in Nat /\ reply.to \in Nat /\ reply.to <= length
  /\ reply.status # "accepted" => reply.to = 0

LEMMA VerdictIsVerdictIn ==
  ASSUME NEW b
  PROVE  Verdict(b) = VerdictIn(Reduce(accepted), b)
  BY DEF Verdict

LEMMA StoredIsBounded ==
  ASSUME IsSequence(accepted), NEW at, at \subseteq DOMAIN accepted, at # {}
  PROVE  Stored(at).append = <<>> /\ Stored(at).status = "accepted"
         /\ Bounded(Stored(at), Len(accepted))
<1>1. Len(accepted) \in Nat /\ at \subseteq 1..Len(accepted)
  BY SequenceDomain
<1>2. Min(at) \in at /\ Max(at) \in at
  BY <1>1, MinAndMax
<1>3. /\ Stored(at).append = <<>> /\ Stored(at).status = "accepted"
      /\ Stored(at).from = Min(at) /\ Stored(at).to = Max(at)
  BY DEF Stored, Answer
<1>4. QED
  BY <1>1, <1>2, <1>3 DEF Bounded

LEMMA VerdictIsBounded ==
  ASSUME IsSequence(accepted), NEW b, IsSequence(b.events)
  PROVE  /\ IsSequence(Verdict(b).append)
         /\ Bounded(Verdict(b), Len(accepted) + Len(Verdict(b).append))
<1>. DEFINE s == Reduce(accepted)
            Fits(v) == /\ IsSequence(v.append)
                       /\ Bounded(v, Len(accepted) + Len(v.append))
<1>. HIDE DEF s
<1>1. Len(accepted) \in Nat /\ Len(b.events) \in Nat
  BY SequenceDomain
<1>2. ASSUME NEW status, NEW code, NEW append, IsSequence(append),
             status # "accepted"
      PROVE  Fits([Answer(status, code) EXCEPT !.append = append])
  <2>1. Len(append) \in Nat
    BY <1>2, SequenceDomain
  <2>2. QED
    BY <1>1, <1>2, <2>1 DEF Answer, Bounded
<1>3. ASSUME NEW status, NEW code, status # "accepted"
      PROVE  Fits(Answer(status, code))
  BY <1>1, <1>3, EmptyIsSequence DEF Answer, Bounded
<1>4. Fits(Appended(b.events))
  BY <1>1 DEF Appended, Bounded
<1>5. \A x : IsSequence(<<x>>)
  <2>1. TAKE x
  <2>2. <<x>> \in Seq({x})
    OBVIOUS
  <2>3. QED
    BY <2>2, MemberIsSequence
<1>6. Fits(Judge(s, b))
  BY <1>2, <1>3, <1>4, <1>5 DEF Judge
<1>7. ASSUME StoredAt(b) # {}
      PROVE  Fits(Stored(StoredAt(b)))
  <2>1. StoredAt(b) \subseteq DOMAIN accepted
    BY DEF StoredAt
  <2>2. QED
    BY <1>1, <1>7, <2>1, StoredIsBounded, EmptyIsSequence DEF Bounded
<1>8. Fits(VerdictIn(s, b))
  BY <1>3, <1>6, <1>7 DEF VerdictIn
<1>9. QED
  BY <1>8, VerdictIsVerdictIn DEF s

(***************************************************************************)
(* Whatever the service does, the accepted log only grows at its end.      *)
(***************************************************************************)
LogGrows ==
  /\ IsSequence(accepted') /\ accepted' # <<>>
  /\ IsPrefix(accepted, accepted') /\ mode' \in Modes

LEMMA CommitAppends ==
  ASSUME IsSequence(accepted), accepted # <<>>, mode \in Modes, NEW events,
         IsSequence(events), Commit(events)
  PROVE  LogGrows /\ Len(accepted') = Len(accepted) + Len(events)
<1>1. accepted' = accepted \o events
  BY DEF Commit
<1>2. IsSequence(accepted') /\ Len(accepted') = Len(accepted) + Len(events)
  BY <1>1, ConcatSequence
<1>3. accepted' # <<>>
  BY <1>1, ConcatEqualIffEmpty, SeqMonotonic, <1>2, EmptyIsSequence,
     SequenceDomain, SequenceEqual
<1>4. IsPrefix(accepted, accepted')
  BY <1>1, PrefixOfConcat
<1>5. mode' \in Modes
  BY DEF Commit, Materialize, LeaveUnread, StopMaterializing, CannotMaterialize, Modes
<1>6. QED
  BY <1>2, <1>3, <1>4, <1>5 DEF LogGrows

LEMMA PerformAppends ==
  ASSUME IsSequence(accepted), accepted # <<>>, mode \in Modes,
         NEW reply, IsSequence(reply.append), Perform(reply)
  PROVE  LogGrows /\ Len(accepted') = Len(accepted) + Len(reply.append)
<1>1. CASE reply.append # <<>> \/ reply.status = "accepted"
  BY <1>1, CommitAppends DEF Perform
<1>2. CASE ~(reply.append # <<>> \/ reply.status = "accepted")
  BY <1>2, PrefixReflexive, EmptyIsSequence, SequenceDomain
     DEF Perform, core, LogGrows
<1>3. QED
  BY <1>1, <1>2

LEMMA ServiceKeepsLog ==
  ASSUME IsSequence(accepted), accepted # <<>>, mode \in Modes,
         Restart \/ Crash \/ Tick
  PROVE  LogGrows
<1>1. accepted' = accepted
  BY DEF Restart, Crash, Tick, Facts
<1>2. mode' \in Modes
  BY DEF Restart, Crash, Tick, Modes, Materialize, StopMaterializing,
         CannotMaterialize
<1>3. QED
  BY <1>1, <1>2, PrefixReflexive DEF LogGrows
-----------------------------------------------------------------------------
(***************************************************************************)
(* Batches: the accepted log has the events of one in a row at one place,  *)
(* or none of them.                                                        *)
(***************************************************************************)
\* A batch as its caller builds it, under the name the caller has for it.
BatchOf(b, name) ==
  /\ IsSequence(b.events) /\ b.events # <<>> /\ b.id = <<name, 0>>
  /\ \A k \in 1..Len(b.events) : b.events[k].id = <<name, k>> /\ b.events[k].batch = b.id

\* An event of the batch, or one that the service would take for it.
IsOf(e, b) == e.batch = b.id \/ \E k \in 1..Len(b.events) : e.id = b.events[k].id

\* Where a batch is in a log: nowhere, or right after its first n events.
Absent(b, log) == \A i \in 1..Len(log) : ~IsOf(log[i], b)

StoredFrom(b, n, log) ==
  /\ n \in Nat /\ n + Len(b.events) <= Len(log)
  /\ \A k \in 1..Len(b.events) : log[n + k] = b.events[k]
  /\ \A i \in 1..Len(log) : IsOf(log[i], b) => i \in n + 1..n + Len(b.events)

AtOnePlace(b, log) == Absent(b, log) \/ \E n \in Nat : StoredFrom(b, n, log)

Distinct(log) == \A i, j \in 1..Len(log) : log[i].id = log[j].id => i = j

LEMMA StoredStays ==
  ASSUME NEW log, NEW new, IsSequence(log), IsSequence(new), NEW b,
         \A k \in 1..Len(new) : ~IsOf(new[k], b)
  PROVE  /\ Absent(b, log) => Absent(b, log \o new)
         /\ \A n : StoredFrom(b, n, log) /\ IsSequence(b.events) => StoredFrom(b, n, log \o new)
         /\ AtOnePlace(b, log) /\ IsSequence(b.events) => AtOnePlace(b, log \o new)
<1>. DEFINE grown == log \o new
            m == Len(log)
<1>1. /\ m \in Nat /\ Len(new) \in Nat /\ Len(grown) = m + Len(new)
      /\ \A i \in 1..(m + Len(new)) : grown[i] = IF i <= m THEN log[i] ELSE new[i - m]
  BY ConcatSequence, SequenceDomain
<1>. HIDE DEF grown
<1>2. ASSUME NEW i \in 1..Len(grown), IsOf(grown[i], b) PROVE i \in 1..m /\ grown[i] = log[i]
  <2>1. CASE ~(i <= m)
    <3>1. i - m \in 1..Len(new) /\ grown[i] = new[i - m]
      BY <1>1, <2>1
    <3>2. QED
      BY <1>2, <3>1
  <2>2. QED
    BY <1>1, <2>1
<1>3. Absent(b, log) => Absent(b, grown)
  BY <1>2 DEF Absent
<1>4. ASSUME NEW n, StoredFrom(b, n, log), IsSequence(b.events) PROVE StoredFrom(b, n, grown)
  <2>1. Len(b.events) \in Nat /\ n \in Nat /\ n + Len(b.events) <= m
    BY <1>4, SequenceDomain DEF StoredFrom
  <2>2. \A k \in 1..Len(b.events) : grown[n + k] = log[n + k]
    BY <1>1, <2>1
  <2>3. QED
    BY <1>1, <1>2, <1>4, <2>1, <2>2, SMTT(30) DEF StoredFrom
<1>5. QED
  BY <1>3, <1>4 DEF AtOnePlace, grown

LEMMA BatchIsStored ==
  ASSUME NEW log, IsSequence(log), NEW b, IsSequence(b.events), Absent(b, log)
  PROVE  StoredFrom(b, Len(log), log \o b.events)
<1>. DEFINE new == b.events
            grown == log \o new
            m == Len(log)
<1>1. /\ m \in Nat /\ Len(new) \in Nat /\ Len(grown) = m + Len(new)
      /\ \A i \in 1..(m + Len(new)) : grown[i] = IF i <= m THEN log[i] ELSE new[i - m]
  BY ConcatSequence, SequenceDomain
<1>. HIDE DEF grown
<1>2. \A k \in 1..Len(new) : grown[m + k] = new[k]
  <2>. TAKE k \in 1..Len(new)
  <2>1. m + k \in 1..(m + Len(new)) /\ ~(m + k <= m) /\ (m + k) - m = k
    BY <1>1
  <2>2. QED
    BY <1>1, <2>1
<1>3. \A i \in 1..Len(grown) : IsOf(grown[i], b) => i \in m + 1..m + Len(new)
  <2>. SUFFICES ASSUME NEW i \in 1..Len(grown), i <= m PROVE ~IsOf(grown[i], b)
    BY <1>1
  <2>1. QED
    BY <1>1 DEF Absent
<1>4. QED
  BY <1>1, <1>2, <1>3 DEF StoredFrom, grown

LEMMA RangeOfStored ==
  ASSUME NEW log, IsSequence(log), NEW b, IsSequence(b.events), NEW n, StoredFrom(b, n, log)
  PROVE  SubSeq(log, n + 1, n + Len(b.events)) = b.events
<1>. DEFINE m == n + Len(b.events)
            range == SubSeq(log, n + 1, m)
<1>1. n \in Nat /\ Len(b.events) \in Nat /\ m \in Nat /\ m <= Len(log) /\ n + 1 \in Nat \ {0}
  BY SequenceDomain DEF StoredFrom
<1>2. /\ IsSequence(range) /\ Len(range) = IF n + 1 <= m THEN m - (n + 1) + 1 ELSE 0
      /\ \A i \in 1..(m - (n + 1) + 1) : range[i] = log[(n + 1) + i - 1]
  BY <1>1, SubSequence
<1>3. Len(range) = Len(b.events) /\ m - (n + 1) + 1 = Len(b.events)
  BY <1>1, <1>2
<1>4. ASSUME NEW i \in 1..Len(b.events) PROVE range[i] = b.events[i]
  <2>1. (n + 1) + i - 1 = n + i
    BY <1>1
  <2>2. QED
    BY <1>2, <1>3, <2>1 DEF StoredFrom
<1>. HIDE DEF range
<1>5. QED
  BY <1>2, <1>3, <1>4, SequenceEqual DEF range

\* What a push appends and answers: it stores a batch that is nowhere yet, opens a
\* conflict, appends nothing, or finds the batch where it is.
Pushes(b) ==
  LET s == Reduce(accepted)
  IN /\ mode = "writable" /\ s.ok /\ StoredAt(b) = {}
     /\ ~(b.base > Len(accepted)) /\ ~HasOpenConflict(s, b)
     /\ PreviewCode(Reduce(SubSeq(accepted, 1, b.base)), b.events) = "valid"

LEMMA VerdictOnBatch ==
  ASSUME NEW b
  PROVE  LET v == Verdict(b)
             kind == DetectConflict(Reduce(accepted), b)
         IN  \/ v = Appended(b.events) /\ Pushes(b) /\ kind = "none"
             \/ v.status # "accepted" /\ v.append = <<>>
             \/ /\ v.status # "accepted" /\ Pushes(b) /\ kind # "none"
                /\ v.append = <<ConflictOpened(Reduce(accepted), b, kind)>>
             \/ /\ v = Stored(StoredAt(b)) /\ StoredAt(b) # {}
                /\ {accepted[i] : i \in StoredAt(b)} = ToSet(b.events)
<1>. DEFINE s == Reduce(accepted)
            kind == DetectConflict(s, b)
            opened == [Answer("conflict", kind) EXCEPT !.append = <<ConflictOpened(s, b, kind)>>]
            v == VerdictIn(s, b)
            Refuses(w) == w.status # "accepted" /\ w.append = <<>>
<1>1. Verdict(b) = v
  BY VerdictIsVerdictIn
<1>2. /\ Refuses(Answer("error", "")) /\ Refuses(Answer("rejected", "invalid_baseline"))
      /\ Refuses(Answer("rejected", "divergent"))
      /\ \A code : Refuses(Answer("rejected", code)) /\ Refuses(Answer("conflict", code))
  BY DEF Answer
<1>3. opened.status # "accepted" /\ opened.append = <<ConflictOpened(s, b, kind)>>
  BY DEF Answer
<1>. HIDE DEF s, kind, opened, Refuses
<1>4. CASE StoredAt(b) = {}
  <2>1. \/ Refuses(v)
        \/ mode = "writable" /\ s.ok /\ ~(b.base > Len(accepted)) /\ v = Judge(s, b)
    BY <1>2, <1>4 DEF VerdictIn
  <2>2. \/ Refuses(Judge(s, b))
        \/ /\ PreviewCode(Reduce(SubSeq(accepted, 1, b.base)), b.events) = "valid"
           /\ ~HasOpenConflict(s, b)
           /\ \/ kind # "none" /\ Judge(s, b) = opened
              \/ kind = "none" /\ Judge(s, b) = Appended(b.events)
    BY <1>2, Zenon DEF Judge, kind, opened
  <2>3. Refuses(v) \/ (Pushes(b) /\ \/ kind # "none" /\ v = opened
                                    \/ kind = "none" /\ v = Appended(b.events))
    <3>. HIDE DEF v
    <3>1. QED
      BY <1>4, <2>1, <2>2 DEF Pushes, s
  <2>. HIDE DEF v
  <2>4. QED
    BY <1>1, <1>3, <2>3 DEF Refuses, kind, s
<1>5. CASE StoredAt(b) # {}
  <2>1. \/ v = Answer("error", "") \/ v = Answer("rejected", "divergent")
        \/ v = Stored(StoredAt(b)) /\ {accepted[i] : i \in StoredAt(b)} = ToSet(b.events)
    BY <1>5 DEF VerdictIn
  <2>. HIDE DEF v
  <2>2. CASE v = Answer("error", "") \/ v = Answer("rejected", "divergent")
    <3>1. Refuses(v)
      BY <1>2, <2>2
    <3>2. QED
      BY <1>1, <3>1 DEF Refuses
  <2>3. QED
    BY <1>1, <1>5, <2>1, <2>2
<1>6. QED
  BY <1>4, <1>5

LEMMA EndsOfRange ==
  ASSUME NEW n \in Nat, NEW m \in Nat \ {0}
  PROVE  Min(n + 1..n + m) = n + 1 /\ Max(n + 1..n + m) = n + m
<1>. DEFINE S == n + 1..n + m
<1>1. n + 1 \in S /\ n + m \in S /\ \A y \in S : y \in Nat /\ n + 1 <= y /\ y <= n + m
  OBVIOUS
<1>. HIDE DEF S
<1>2. \A x \in S : (\A y \in S : x <= y) => x = n + 1
  <2>. TAKE x \in S
  <2>. HAVE \A y \in S : x <= y
  <2>1. x <= n + 1 /\ n + 1 <= x /\ x \in Nat
    BY <1>1
  <2>2. QED
    BY <2>1
<1>3. \A x \in S : (\A y \in S : x >= y) => x = n + m
  <2>. TAKE x \in S
  <2>. HAVE \A y \in S : x >= y
  <2>1. x >= n + m /\ x <= n + m /\ x \in Nat
    BY <1>1
  <2>2. QED
    BY <2>1
<1>4. Min(S) = n + 1
  BY <1>1, <1>2 DEF Min
<1>5. Max(S) = n + m
  <2>1. \A y \in S : n + m >= y
    BY <1>1
  <2>2. QED
    BY <1>1, <1>3, <2>1 DEF Max
<1>6. QED
  BY <1>4, <1>5 DEF S

\* A batch that the service recognizes is stored whole, and the range that the service
\* answers is the batch.
LEMMA FoundWhereStored ==
  ASSUME IsSequence(accepted), NEW b, NEW name, BatchOf(b, name), AtOnePlace(b, accepted)
  PROVE  /\ StoredAt(b) = {} => Absent(b, accepted)
         /\ StoredAt(b) # {} =>
              LET at == StoredAt(b)
              IN /\ Min(at) \in Nat \ {0} /\ Max(at) \in Nat /\ Max(at) <= Len(accepted)
                 /\ SubSeq(accepted, Min(at), Max(at)) = b.events
                 /\ \E n \in Nat : /\ StoredFrom(b, n, accepted)
                                  /\ Min(at) = n + 1 /\ Max(at) = n + Len(b.events)
<1>. DEFINE at == StoredAt(b)
<1>1. IsSequence(accepted) /\ DOMAIN accepted = 1..Len(accepted)
  BY SequenceDomain
<1>2. BatchOf(b, name)
  OBVIOUS
<1>3. /\ IsSequence(b.events) /\ b.events # <<>>
      /\ \A k \in 1..Len(b.events) : b.events[k].batch = b.id
  BY <1>2 DEF BatchOf
<1>4. Len(b.events) \in Nat \ {0} /\ DOMAIN b.events = 1..Len(b.events)
  BY <1>3, SequenceDomain, EmptySeq, EmptyIsSequence, SequenceEqual
<1>5. ToSet(b.events) = {b.events[k] : k \in 1..Len(b.events)}
  BY <1>4 DEF ToSet
<1>. DEFINE byBatch == {i \in DOMAIN accepted : accepted[i].batch = b.id}
            byEvent == {i \in DOMAIN accepted :
                          \E e \in ToSet(b.events) : accepted[i].id = e.id}
<1>6. at = IF byBatch # {} THEN byBatch ELSE byEvent
  BY DEF StoredAt
<1>7. \A i \in 1..Len(accepted) : IsOf(accepted[i], b) <=> i \in byBatch \cup byEvent
  BY <1>1, <1>5 DEF IsOf
<1>8. byBatch \cup byEvent \subseteq 1..Len(accepted)
  BY <1>1
<1>9. ASSUME at = {} PROVE Absent(b, accepted)
  <2>1. byBatch = {} /\ byEvent = {}
    BY <1>6, <1>9
  <2>2. QED
    BY <1>7, <2>1 DEF Absent
<1>10. ASSUME at # {}
       PROVE  /\ Min(at) \in Nat \ {0} /\ Max(at) \in Nat /\ Max(at) <= Len(accepted)
              /\ SubSeq(accepted, Min(at), Max(at)) = b.events
              /\ \E n \in Nat : /\ StoredFrom(b, n, accepted)
                               /\ Min(at) = n + 1 /\ Max(at) = n + Len(b.events)
  <2>1. ~Absent(b, accepted)
    <3>. HIDE DEF byBatch, byEvent
    <3>1. PICK i \in at : TRUE
      BY <1>10
    <3>2. QED
      BY <1>6, <1>7, <1>8, <3>1 DEF Absent
  <2>2. PICK n \in Nat : StoredFrom(b, n, accepted)
    BY <2>1 DEF AtOnePlace
  <2>. DEFINE range == n + 1..n + Len(b.events)
  <2>3. \A i \in 1..Len(accepted) : IsOf(accepted[i], b) => i \in range
    BY <2>2 DEF StoredFrom
  <2>4. \A i \in range : i \in byBatch
    <3>1. TAKE i \in range
    <3>2. i - n \in 1..Len(b.events) /\ n + (i - n) = i /\ i \in 1..Len(accepted)
      BY <1>1, <1>4, <2>2, SequenceDomain DEF StoredFrom
    <3>3. accepted[i] = b.events[i - n]
      BY <2>2, <3>2 DEF StoredFrom
    <3>4. QED
      BY <1>1, <1>3, <3>2, <3>3
  <2>5. n + 1 \in range
    BY <1>4
  <2>6. at = range
    <3>. HIDE DEF byBatch, byEvent, range
    <3>1. QED
      BY <1>6, <1>7, <1>8, <2>3, <2>4, <2>5
  <2>7. Min(at) = n + 1 /\ Max(at) = n + Len(b.events)
    BY <1>4, <2>6, EndsOfRange
  <2>8. SubSeq(accepted, n + 1, n + Len(b.events)) = b.events
    BY <1>1, <1>3, <2>2, RangeOfStored
  <2>9. QED
    BY <1>4, <2>2, <2>7, <2>8 DEF StoredFrom
<1>11. QED
  BY <1>9, <1>10
=============================================================================
