-------------------------- MODULE SharedLogProofs --------------------------
(***************************************************************************)
(* For every number of devices and engines: the devices implement a shared *)
(* log, and what the outbox says of acceptance is true; with one engine on *)
(* each device, nothing is hidden and what is given up stays out.          *)
(*                                                                         *)
(* The argument: a batch is in the accepted log as a whole, at one place,  *)
(* or not at all, because Team Core appends it in one step and recognizes  *)
(* it from then on by its id.  So the range that an answer names, and the  *)
(* range an engine finds in what it pulled, both are the batch.            *)
(***************************************************************************)
EXTENDS TeamSyncProofs

\* The batches that the outboxes hold.
Written == UNION {{outbox[d][i].batch : i \in DOMAIN outbox[d]} : d \in Devices}

\* Where the event at place i of the log comes from.
FromService(e, i) == e.id = <<"svc", i>> /\ e.batch = <<"svc", i>>

FromBatch(e, batches) == \E b \in batches : \E k \in 1..Len(b.events) : e = b.events[k]

FromSeed(e) == \E i \in DOMAIN Seed : e = Seed[i]

Founded(log, batches) ==
  \A i \in 1..Len(log) : FromSeed(log[i]) \/ FromService(log[i], i) \/ FromBatch(log[i], batches)

\* An accepted entry names the range of its batch, within the first n events.
Ranged(e, n, log) ==
  e.status = "accepted" =>
    /\ e.from \in Nat \ {0} /\ e.to \in Nat /\ e.to <= n
    /\ SubSeq(log, e.from, e.to) = e.batch.events

NamedAt(d) ==
  \A i \in DOMAIN outbox[d] : \E k \in DOMAIN Work[d] :
    k <= written[d] /\ BatchOf(outbox[d][i].batch, Work[d][k].name)

LogInv ==
  /\ \A b \in Written : AtOnePlace(b, accepted)
  /\ Founded(accepted, Written) /\ Distinct(accepted)

NamesInv ==
  /\ \A d \in Devices : NamedAt(d)
  /\ \A a, b \in Written : a.id = b.id => a = b
  /\ late \subseteq Written

RangesInv ==
  \A d \in Devices : \A i \in DOMAIN outbox[d] :
    Ranged(outbox[d][i], Len(local[d]), accepted)

\* What an engine holds between the steps of an attempt.
HeldAt(s) ==
  LET d == DeviceOf[s]
  IN  /\ pc[s] \in {"import", "reconcile", "settle"} => FromLog(pulled[s], seen[s])
      /\ pc[s] = "settle" => \A i \in writes[s] : WasPulled(s, outbox[d][i].batch)
      /\ pc[s] \in {"answered", "record"} =>
           \E i \in DOMAIN outbox[d] : outbox[d][i].batch = answer[s].batch
      /\ pc[s] = "answered" => Ranged(answer[s], Len(accepted), accepted)
      /\ pc[s] = "record" => Ranged(answer[s], Len(local[d]), accepted)

HeldInv == \A s \in Sessions : HeldAt(s)
-----------------------------------------------------------------------------
(***************************************************************************)
(* The batches and their names.                                            *)
(***************************************************************************)
LEMMA WrittenIsNamed ==
  ASSUME NamesInv, NEW b \in Written
  PROVE  \E d \in Devices : \E k \in DOMAIN Work[d] :
           k <= written[d] /\ BatchOf(b, Work[d][k].name)
BY DEF NamesInv, NamedAt, Written

\* Two batches have no event of each other, and neither has one of the service.
LEMMA BatchesApart ==
  ASSUME NamesInv, NEW a \in Written, NEW b \in Written, a # b, NEW k \in 1..Len(a.events)
  PROVE  ~IsOf(a.events[k], b)
<1>1. PICK c \in Devices : \E j \in DOMAIN Work[c] : BatchOf(a, Work[c][j].name)
  BY WrittenIsNamed
<1>2. PICK j \in DOMAIN Work[c] : BatchOf(a, Work[c][j].name)
  BY <1>1
<1>3. PICK d \in Devices : \E l \in DOMAIN Work[d] : BatchOf(b, Work[d][l].name)
  BY WrittenIsNamed
<1>4. PICK l \in DOMAIN Work[d] : BatchOf(b, Work[d][l].name)
  BY <1>3
<1>. DEFINE x == Work[c][j].name
            y == Work[d][l].name
<1>5. a.id = <<x, 0>> /\ b.id = <<y, 0>> /\ a.id # b.id
  BY <1>2, <1>4 DEF BatchOf, NamesInv
<1>6. x # y
  BY <1>5
<1>7. /\ a.events[k].id = <<x, k>> /\ a.events[k].batch = a.id
      /\ \A i \in 1..Len(b.events) : b.events[i].id = <<y, i>>
  BY <1>2, <1>4 DEF BatchOf
<1>. HIDE DEF x, y
<1>8. QED
  BY <1>5, <1>6, <1>7 DEF IsOf

LEMMA ServiceApart ==
  ASSUME NamesInv, NEW b \in Written, NEW e, NEW i, FromService(e, i)
  PROVE  ~IsOf(e, b)
<1>1. PICK d \in Devices : \E l \in DOMAIN Work[d] : BatchOf(b, Work[d][l].name)
  BY WrittenIsNamed
<1>2. PICK l \in DOMAIN Work[d] : BatchOf(b, Work[d][l].name)
  BY <1>1
<1>. DEFINE y == Work[d][l].name
<1>3. y # "svc"
  BY NamesAssumption
<1>4. b.id = <<y, 0>> /\ \A k \in 1..Len(b.events) : b.events[k].id = <<y, k>>
  BY <1>2 DEF BatchOf
<1>. HIDE DEF y
<1>5. QED
  BY <1>3, <1>4 DEF IsOf, FromService
-----------------------------------------------------------------------------
(***************************************************************************)
(* The log: what the service appends, and what that does to the batches.   *)
(***************************************************************************)
\* A batch of an outbox that the service recognizes is stored whole, and the range
\* that the service answers is the batch.
LEMMA RecognizedIsStored ==
  ASSUME Inv, LogInv, NamesInv, NEW b \in Written
  PROVE  /\ StoredAt(b) = {} => Absent(b, accepted)
         /\ StoredAt(b) # {} =>
              LET at == StoredAt(b)
              IN /\ Min(at) \in Nat \ {0} /\ Max(at) \in Nat /\ Max(at) <= Len(accepted)
                 /\ SubSeq(accepted, Min(at), Max(at)) = b.events
<1>1. IsSequence(accepted) /\ AtOnePlace(b, accepted)
  BY DEF Inv, LogOK, LogInv
<1>2. PICK d \in Devices : \E k \in DOMAIN Work[d] : BatchOf(b, Work[d][k].name)
  BY WrittenIsNamed
<1>3. PICK k \in DOMAIN Work[d] : BatchOf(b, Work[d][k].name)
  BY <1>2
<1>4. QED
  BY <1>1, <1>3, FoundWhereStored

\* What keeps the batches whole when the service appends new to the log: the events
\* are one batch that was nowhere, or one event of the service, or there are none.
Extends(b, new) ==
  \/ new = b.events /\ Absent(b, accepted)
  \/ \E e : new = <<e>> /\ FromService(e, Len(accepted) + 1)
  \/ new = <<>>

LEMMA VerdictExtends ==
  ASSUME Inv, LogInv, NamesInv, NEW b \in Written
  PROVE  /\ Extends(b, Verdict(b).append)
         /\ Verdict(b).status = "accepted" =>
              /\ Verdict(b).from \in Nat \ {0} /\ Verdict(b).to \in Nat
              /\ Verdict(b).to <= Len(accepted \o Verdict(b).append)
              /\ SubSeq(accepted \o Verdict(b).append, Verdict(b).from, Verdict(b).to) = b.events
<1>. DEFINE v == Verdict(b)
            at == StoredAt(b)
<1>1. IsSequence(accepted) /\ Len(accepted) \in Nat
  BY SequenceDomain DEF Inv, LogOK
<1>2. IsSequence(b.events) /\ Len(b.events) \in Nat
  BY WrittenIsNamed, SequenceDomain DEF BatchOf
<1>3. CASE v = Appended(b.events) /\ at = {}
  <2>. HIDE DEF v
  <2>1. v.append = b.events /\ v.from = Len(accepted) + 1 /\ v.to = Len(accepted) + Len(b.events)
    BY <1>3 DEF Appended
  <2>2. Absent(b, accepted)
    BY <1>3, RecognizedIsStored
  <2>. DEFINE grown == accepted \o b.events
  <2>3. IsSequence(grown) /\ Len(grown) = Len(accepted) + Len(b.events)
    BY <1>1, <1>2, ConcatSequence
  <2>4. SubSeq(grown, Len(accepted) + 1, Len(accepted) + Len(b.events)) = b.events
    <3>1. StoredFrom(b, Len(accepted), grown)
      BY <1>1, <1>2, <2>2, BatchIsStored
    <3>. HIDE DEF grown
    <3>2. QED
      BY <1>2, <2>3, <3>1, RangeOfStored
  <2>. HIDE DEF grown
  <2>5. accepted \o v.append = grown
    BY <2>1 DEF grown
  <2>6. /\ v.from \in Nat \ {0} /\ v.to \in Nat /\ v.to <= Len(grown)
        /\ SubSeq(grown, v.from, v.to) = b.events
    BY <1>1, <1>2, <2>1, <2>3, <2>4
  <2>7. Extends(b, v.append)
    BY <2>1, <2>2 DEF Extends
  <2>8. QED
    BY <2>5, <2>6, <2>7 DEF v
<1>4. CASE /\ v.status # "accepted"
           /\ v.append = <<>> \/ \E s, code : v.append = <<ConflictOpened(s, b, code)>>
  <2>1. \A s, code : FromService(ConflictOpened(s, b, code), Len(accepted) + 1)
    BY DEF ConflictOpened, ServiceId, FromService
  <2>. HIDE DEF v
  <2>2. Extends(b, v.append)
    BY <1>4, <2>1 DEF Extends
  <2>3. QED
    BY <1>4, <2>2 DEF v
<1>5. CASE v = Stored(at) /\ at # {}
  <2>1. v.append = <<>> /\ v.from = Min(at) /\ v.to = Max(at)
    BY <1>5 DEF Stored, Answer
  <2>2. /\ Min(at) \in Nat \ {0} /\ Max(at) \in Nat /\ Max(at) <= Len(accepted)
        /\ SubSeq(accepted, Min(at), Max(at)) = b.events
    BY <1>5, RecognizedIsStored
  <2>3. accepted \o <<>> = accepted
    BY <1>1, ConcatEmptySeq DEF IsSequence
  <2>. HIDE DEF v, at
  <2>4. accepted \o v.append = accepted
    BY <2>1, <2>3
  <2>5. /\ v.from \in Nat \ {0} /\ v.to \in Nat /\ v.to <= Len(accepted)
        /\ SubSeq(accepted, v.from, v.to) = b.events
    BY <2>1, <2>2
  <2>6. Extends(b, v.append)
    BY <2>1 DEF Extends
  <2>7. QED
    BY <2>4, <2>5, <2>6 DEF v
<1>6. \/ v = Appended(b.events) /\ at = {}
      \/ /\ v.status # "accepted"
         /\ v.append = <<>> \/ \E s, code : v.append = <<ConflictOpened(s, b, code)>>
      \/ v = Stored(at) /\ at # {}
  <2>. DEFINE kind == DetectConflict(Reduce(accepted), b)
  <2>1. \/ v = Appended(b.events) /\ Pushes(b)
        \/ v.status # "accepted" /\ v.append = <<>>
        \/ /\ v.status # "accepted"
           /\ v.append = <<ConflictOpened(Reduce(accepted), b, kind)>>
        \/ v = Stored(at) /\ at # {}
    BY VerdictOnBatch
  <2>. HIDE DEF v, kind
  <2>2. Pushes(b) => at = {}
    BY DEF Pushes
  <2>3. QED
    BY <2>1, <2>2
<1>7. QED
  BY <1>3, <1>4, <1>5, <1>6

\* The log stays in order when it is extended so.
LEMMA ExtendedLog ==
  ASSUME Inv, LogInv, NamesInv, NEW b \in Written, NEW new, IsSequence(new), Extends(b, new)
  PROVE  /\ \A c \in Written : AtOnePlace(c, accepted \o new)
         /\ Founded(accepted \o new, Written) /\ Distinct(accepted \o new)
<1>. DEFINE grown == accepted \o new
            m == Len(accepted)
<1>1. IsSequence(accepted) /\ m \in Nat /\ Len(new) \in Nat /\ DOMAIN accepted = 1..m
  BY SequenceDomain DEF Inv, LogOK
<1>2. /\ Len(grown) = m + Len(new)
      /\ \A i \in 1..(m + Len(new)) : grown[i] = IF i <= m THEN accepted[i] ELSE new[i - m]
  BY <1>1, ConcatSequence
<1>3. PICK d \in Devices : \E k \in DOMAIN Work[d] : BatchOf(b, Work[d][k].name)
  BY WrittenIsNamed
<1>4. PICK k \in DOMAIN Work[d] : BatchOf(b, Work[d][k].name)
  BY <1>3
<1>. DEFINE x == Work[d][k].name
<1>5. /\ IsSequence(b.events) /\ b.id = <<x, 0>>
      /\ \A j \in 1..Len(b.events) : b.events[j].id = <<x, j>> /\ b.events[j].batch = b.id
  BY <1>4 DEF BatchOf
<1>6. ASSUME NEW e, new = <<e>> PROVE Len(new) = 1 /\ new[1] = e
  BY <1>6
<1>7. new = <<>> => Len(new) = 0
  BY EmptyIsSequence
<1>. HIDE DEF grown, x
<1>8. \A c \in Written : AtOnePlace(c, grown)
  <2>. TAKE c \in Written
  <2>1. AtOnePlace(c, accepted) /\ IsSequence(c.events)
    BY WrittenIsNamed DEF LogInv, BatchOf
  <2>2. CASE new = b.events /\ Absent(b, accepted) /\ c = b
    <3>1. StoredFrom(b, m, grown)
      BY <1>1, <1>5, <2>2, BatchIsStored DEF grown
    <3>2. QED
      BY <1>1, <2>2, <3>1 DEF AtOnePlace
  <2>3. CASE new = b.events /\ c # b
    <3>1. \A j \in 1..Len(new) : ~IsOf(new[j], c)
      BY <2>3, BatchesApart
    <3>2. QED
      BY <1>1, <2>1, <3>1, StoredStays DEF grown
  <2>4. CASE \E e : new = <<e>> /\ FromService(e, m + 1)
    <3>1. \A j \in 1..Len(new) : ~IsOf(new[j], c)
      BY <1>6, <2>4, ServiceApart
    <3>2. QED
      BY <1>1, <2>1, <3>1, StoredStays DEF grown
  <2>5. CASE new = <<>>
    <3>1. \A j \in 1..Len(new) : ~IsOf(new[j], c)
      BY <1>7, <2>5
    <3>2. QED
      BY <1>1, <2>1, <3>1, StoredStays DEF grown
  <2>6. QED
    BY <2>2, <2>3, <2>4, <2>5 DEF Extends
<1>9. Founded(grown, Written)
  <2>. SUFFICES ASSUME NEW i \in 1..(m + Len(new))
                PROVE  \/ FromSeed(grown[i]) \/ FromService(grown[i], i)
                       \/ FromBatch(grown[i], Written)
    BY <1>2 DEF Founded
  <2>1. CASE i <= m
    BY <1>1, <1>2, <2>1 DEF LogInv, Founded
  <2>2. CASE ~(i <= m)
    <3>1. i - m \in 1..Len(new) /\ grown[i] = new[i - m]
      BY <1>1, <1>2, <2>2
    <3>2. CASE new = b.events
      BY <3>1, <3>2 DEF FromBatch
    <3>3. CASE \E e : new = <<e>> /\ FromService(e, m + 1)
      <4>1. PICK e : new = <<e>> /\ FromService(e, m + 1)
        BY <3>3
      <4>2. i = m + 1 /\ grown[i] = e
        BY <1>1, <1>6, <3>1, <4>1
      <4>3. QED
        BY <4>1, <4>2
    <3>4. CASE new = <<>>
      BY <1>7, <3>1, <3>4
    <3>5. QED
      BY <3>2, <3>3, <3>4 DEF Extends
  <2>3. QED
    BY <2>1, <2>2
<1>10. Distinct(grown)
  <2>1. ASSUME NEW i \in 1..m, NEW j \in 1..Len(new) PROVE accepted[i].id # new[j].id
    <3>1. FromSeed(accepted[i]) \/ FromService(accepted[i], i) \/ FromBatch(accepted[i], Written)
      BY DEF LogInv, Founded
    <3>2. CASE new = b.events /\ Absent(b, accepted)
      BY <3>2 DEF Absent, IsOf
    <3>3. CASE \E e : new = <<e>> /\ FromService(e, m + 1)
      <4>1. new[j].id = <<"svc", m + 1>>
        BY <1>6, <3>3 DEF FromService
      <4>2. CASE FromSeed(accepted[i])
        BY <4>1, <4>2, NamesAssumption DEF FromSeed
      <4>3. CASE FromService(accepted[i], i)
        BY <1>1, <4>1, <4>3 DEF FromService
      <4>4. CASE FromBatch(accepted[i], Written)
        <5>1. PICK a \in Written : \E l \in 1..Len(a.events) : accepted[i] = a.events[l]
          BY <4>4 DEF FromBatch
        <5>2. PICK l \in 1..Len(a.events) : accepted[i] = a.events[l]
          BY <5>1
        <5>3. PICK c \in Devices : \E q \in DOMAIN Work[c] : BatchOf(a, Work[c][q].name)
          BY WrittenIsNamed
        <5>4. PICK q \in DOMAIN Work[c] : BatchOf(a, Work[c][q].name)
          BY <5>3
        <5>. DEFINE y == Work[c][q].name
        <5>5. accepted[i].id = <<y, l>> /\ y # "svc"
          BY <5>2, <5>4, NamesAssumption DEF BatchOf
        <5>. HIDE DEF y
        <5>6. QED
          BY <4>1, <5>5
      <4>5. QED
        BY <3>1, <4>2, <4>3, <4>4
    <3>4. CASE new = <<>>
      BY <1>7, <3>4
    <3>5. QED
      BY <3>2, <3>3, <3>4 DEF Extends
  <2>2. ASSUME NEW i \in 1..Len(new), NEW j \in 1..Len(new), new[i].id = new[j].id PROVE i = j
    <3>1. CASE new = b.events
      BY <1>5, <2>2, <3>1
    <3>2. CASE \E e : new = <<e>>
      BY <1>6, <3>2
    <3>3. CASE new = <<>>
      BY <1>7, <3>3
    <3>4. QED
      BY <3>1, <3>2, <3>3 DEF Extends
  <2>. SUFFICES ASSUME NEW i \in 1..(m + Len(new)), NEW j \in 1..(m + Len(new)),
                       grown[i].id = grown[j].id
                PROVE  i = j
    BY <1>2 DEF Distinct
  <2>3. /\ i <= m => i \in 1..m /\ grown[i] = accepted[i]
        /\ ~(i <= m) => i - m \in 1..Len(new) /\ grown[i] = new[i - m]
        /\ j <= m => j \in 1..m /\ grown[j] = accepted[j]
        /\ ~(j <= m) => j - m \in 1..Len(new) /\ grown[j] = new[j - m]
    BY <1>1, <1>2
  <2>4. CASE i <= m /\ j <= m
    BY <2>3, <2>4 DEF LogInv, Distinct
  <2>5. CASE ~(i <= m) /\ ~(j <= m)
    <3>1. i - m = j - m
      BY <2>2, <2>3, <2>5
    <3>2. QED
      BY <1>1, <3>1
  <2>6. CASE (i <= m /\ ~(j <= m)) \/ (~(i <= m) /\ j <= m)
    BY <2>1, <2>3, <2>6
  <2>7. QED
    BY <2>4, <2>5, <2>6
<1>11. QED
  BY <1>8, <1>9, <1>10 DEF grown
-----------------------------------------------------------------------------
(***************************************************************************)
(* What a step leaves as it was, and what it has to add.                   *)
(***************************************************************************)
\* The records of every outbox stay where they are.
RecordsStay ==
  \A c \in Devices : \A i \in DOMAIN outbox[c] :
    i \in DOMAIN outbox'[c] /\ outbox'[c][i] = outbox[c][i]

\* A record that is new is about the batch of an older one.
OfKnownBatch(e, d) == \E i \in DOMAIN outbox[d] : outbox[d][i].batch = e.batch

LEMMA LogOfVerdict ==
  ASSUME Inv, LogInv, NamesInv, NEW b \in Written, Perform(Verdict(b)),
         outbox' = outbox
  PROVE  /\ LogInv' /\ accepted' = accepted \o Verdict(b).append
         /\ Verdict(b).status = "accepted" =>
              /\ Verdict(b).from \in Nat \ {0} /\ Verdict(b).to \in Nat
              /\ Verdict(b).to <= Len(accepted')
              /\ SubSeq(accepted', Verdict(b).from, Verdict(b).to) = b.events
<1>. DEFINE v == Verdict(b)
<1>1. IsSequence(accepted) /\ IsSequence(b.events)
  BY WrittenIsNamed DEF Inv, LogOK, BatchOf
<1>2. IsSequence(v.append)
  BY <1>1, VerdictIsBounded
<1>3. accepted \o <<>> = accepted
  BY <1>1, ConcatEmptySeq DEF IsSequence
<1>4. /\ Extends(b, v.append)
      /\ v.status = "accepted" =>
           /\ v.from \in Nat \ {0} /\ v.to \in Nat /\ v.to <= Len(accepted \o v.append)
           /\ SubSeq(accepted \o v.append, v.from, v.to) = b.events
  BY VerdictExtends
<1>5. Perform(v)
  OBVIOUS
<1>. HIDE DEF v
<1>6. accepted' = accepted \o v.append
  BY <1>3, <1>5 DEF Perform, Commit, core
<1>7. Written' = Written
  BY DEF Written
<1>8. LogInv'
  <2>1. /\ \A c \in Written : AtOnePlace(c, accepted')
        /\ Founded(accepted', Written) /\ Distinct(accepted')
    BY <1>2, <1>4, <1>6, ExtendedLog
  <2>2. QED
    BY <1>7, <2>1 DEF LogInv
<1>9. QED
  BY <1>4, <1>6, <1>8 DEF v

LEMMA LogRests ==
  ASSUME LogInv, accepted' = accepted, Written' = Written
  PROVE  LogInv'
  BY DEF LogInv

\* A record of a known batch leaves the batches as they are.
LEMMA KnownRecord ==
  ASSUME Inv, NamesInv, NEW d \in Devices, NEW e, OfKnownBatch(e, d),
         outbox' = outbox \/ outbox' = [outbox EXCEPT ![d] = Append(@, e)],
         written' = written, late' \subseteq Written
  PROVE  /\ RecordsStay /\ Written' = Written /\ NamesInv'
         /\ \A c \in Devices : \A i \in DOMAIN outbox'[c] :
              i \in DOMAIN outbox[c] \/ (c = d /\ outbox'[c][i] = e)
<1>1. CASE outbox' = outbox
  <2>1. Written' = Written
    BY <1>1 DEF Written
  <2>2. \A c \in Devices : NamedAt(c)'
    BY <1>1 DEF NamesInv, NamedAt
  <2>3. QED
    BY <1>1, <2>1, <2>2 DEF RecordsStay, NamesInv
<1>2. CASE outbox' = [outbox EXCEPT ![d] = Append(@, e)]
  <2>1. DOMAIN outbox = Devices /\ \A c \in Devices : IsSequence(outbox[c])
    BY DEF Inv, DevicesOK, DeviceAt
  <2>2. outbox'[d] = Append(outbox[d], e) /\ \A c \in Devices \ {d} : outbox'[c] = outbox[c]
    BY <1>2, <2>1
  <2>. DEFINE n == Len(outbox[d])
  <2>3. /\ n \in Nat /\ DOMAIN outbox[d] = 1..n /\ DOMAIN outbox'[d] = 1..(n + 1)
        /\ \A i \in 1..n : outbox'[d][i] = outbox[d][i]
        /\ outbox'[d][n + 1] = e
    BY <2>1, <2>2, AppendSequence, SequenceDomain
  <2>4. RecordsStay
    BY <2>2, <2>3 DEF RecordsStay
  <2>5. ASSUME NEW c \in Devices, NEW i \in DOMAIN outbox'[c]
        PROVE  /\ i \in DOMAIN outbox[c] \/ (c = d /\ outbox'[c][i] = e)
               /\ \E j \in DOMAIN outbox[c] : outbox'[c][i].batch = outbox[c][j].batch
    <3>1. CASE c = d
      <4>1. i \in 1..n \/ i = n + 1
        BY <2>3, <3>1
      <4>2. QED
        BY <2>3, <3>1, <4>1 DEF OfKnownBatch
    <3>2. CASE c # d
      BY <2>2, <3>2
    <3>3. QED
      BY <3>1, <3>2
  <2>6. Written' = Written
    <3>1. Written' \subseteq Written
      BY <2>5 DEF Written
    <3>2. Written \subseteq Written'
      BY <2>4 DEF Written, RecordsStay
    <3>3. QED
      BY <3>1, <3>2
  <2>7. ASSUME NEW c \in Devices PROVE NamedAt(c)'
    <3>1. NamedAt(c)
      BY DEF NamesInv
    <3>2. QED
      BY <2>5, <3>1 DEF NamedAt
  <2>8. QED
    BY <2>4, <2>5, <2>6, <2>7 DEF NamesInv
<1>3. QED
  BY <1>1, <1>2

LEMMA RangedStays ==
  ASSUME NEW e, NEW m \in Nat, NEW n \in Nat, m <= n, NEW log, NEW longer,
         IsSequence(log), IsSequence(longer), IsPrefix(log, longer), m <= Len(log),
         Ranged(e, m, log)
  PROVE  Ranged(e, n, longer)
<1>. SUFFICES ASSUME e.status = "accepted"
              PROVE  /\ e.from \in Nat \ {0} /\ e.to \in Nat /\ e.to <= n
                     /\ SubSeq(longer, e.from, e.to) = e.batch.events
  BY DEF Ranged
<1>1. /\ e.from \in Nat \ {0} /\ e.to \in Nat /\ e.to <= m
      /\ SubSeq(log, e.from, e.to) = e.batch.events
  BY DEF Ranged
<1>2. e.to <= Len(log) /\ e.to <= n
  BY <1>1, SequenceDomain
<1>3. SubSeq(log, e.from, e.to) = SubSeq(longer, e.from, e.to)
  <2>. DEFINE from == e.from
              to == e.to
  <2>1. from \in Nat \ {0} /\ to \in Nat /\ to <= Len(log)
    BY <1>1, <1>2
  <2>. HIDE DEF from, to
  <2>2. SubSeq(log, from, to) = SubSeq(longer, from, to)
    BY <2>1, PrefixKeepsRange
  <2>3. QED
    BY <2>2 DEF from, to
<1>4. QED
  BY <1>1, <1>2, <1>3

\* What the engines and the devices need of the lengths.
LEMMA GrowingLengths ==
  ASSUME Inv, Grows, DevicesOK'
  PROVE  /\ IsSequence(accepted) /\ IsSequence(accepted') /\ IsPrefix(accepted, accepted')
         /\ Len(accepted) \in Nat /\ Len(accepted') \in Nat /\ Len(accepted) <= Len(accepted')
         /\ \A d \in Devices : /\ Len(local[d]) \in Nat /\ Len(local'[d]) \in Nat
                               /\ Len(local[d]) <= Len(local'[d])
                               /\ Len(local[d]) <= Len(accepted)
<1>1. IsSequence(accepted) /\ IsSequence(accepted') /\ IsPrefix(accepted, accepted')
  BY DEF Inv, LogOK, Grows, LogGrows
<1>2. Len(accepted) \in Nat /\ Len(accepted') \in Nat /\ Len(accepted) <= Len(accepted')
  BY <1>1, SequenceDomain, PrefixByIndex
<1>3. \A d \in Devices : Len(local'[d]) \in Nat
  BY SequenceDomain DEF DevicesOK, DeviceAt
<1>4. QED
  BY <1>1, <1>2, <1>3, LengthsAreNatural DEF Grows

LEMMA RangesStay ==
  ASSUME Inv, Grows, DevicesOK', RecordsStay, RangesInv,
         \A c \in Devices : \A i \in DOMAIN outbox'[c] :
           i \in DOMAIN outbox[c] \/ Ranged(outbox'[c][i], Len(local'[c]), accepted')
  PROVE  RangesInv'
<1>. SUFFICES ASSUME NEW c \in Devices, NEW i \in DOMAIN outbox'[c], i \in DOMAIN outbox[c]
              PROVE  Ranged(outbox'[c][i], Len(local'[c]), accepted')
  BY DEF RangesInv
<1>1. Ranged(outbox[c][i], Len(local[c]), accepted) /\ outbox'[c][i] = outbox[c][i]
  BY DEF RangesInv, RecordsStay
<1>2. QED
  BY <1>1, GrowingLengths, RangedStays

LEMMA FromLogStays ==
  ASSUME NEW events, NEW n \in Nat, IsSequence(accepted), IsSequence(accepted'),
         IsPrefix(accepted, accepted'), FromLog(events, n)
  PROVE  /\ IsSequence(events) /\ n + Len(events) <= Len(accepted')
         /\ events = SubSeq(accepted', n + 1, n + Len(events))
<1>1. /\ IsSequence(events) /\ n + Len(events) <= Len(accepted)
      /\ events = SubSeq(accepted, n + 1, n + Len(events))
  BY DEF FromLog
<1>. DEFINE m == n + Len(events)
            first == n + 1
<1>2. m \in Nat /\ first \in Nat \ {0} /\ m <= Len(accepted) /\ Len(accepted) <= Len(accepted')
  BY <1>1, SequenceDomain, PrefixByIndex
<1>3. m <= Len(accepted')
  BY <1>2, SequenceDomain
<1>4. events = SubSeq(accepted, first, m)
  BY <1>1
<1>. HIDE DEF m, first
<1>5. SubSeq(accepted, first, m) = SubSeq(accepted', first, m)
  BY <1>2, PrefixKeepsRange
<1>6. QED
  BY <1>1, <1>3, <1>4, <1>5 DEF m, first

\* An engine that rests holds what it held.
LEMMA RestingHolds ==
  ASSUME Inv, Grows, DevicesOK', RecordsStay, NEW s \in Sessions, HeldAt(s), Rests(s)
  PROVE  HeldAt(s)'
<1>. DEFINE d == DeviceOf[s]
<1>1. d \in Devices /\ EngineAt(s)
  BY EngineFacts
<1>2. /\ IsSequence(accepted) /\ IsSequence(accepted') /\ IsPrefix(accepted, accepted')
      /\ Len(accepted) \in Nat /\ Len(accepted') \in Nat /\ Len(accepted) <= Len(accepted')
      /\ Len(local[d]) \in Nat /\ Len(local'[d]) \in Nat
      /\ Len(local[d]) <= Len(local'[d]) /\ Len(local[d]) <= Len(accepted)
  BY <1>1, GrowingLengths
<1>3. /\ pc'[s] = pc[s] /\ seen'[s] = seen[s] /\ pulled'[s] = pulled[s]
      /\ writes'[s] = writes[s] /\ answer'[s] = answer[s]
  BY DEF Rests
<1>4. ASSUME pc[s] \in {"import", "reconcile", "settle"}
      PROVE  FromLog(pulled[s], seen[s])'
  <2>1. FromLog(pulled[s], seen[s]) /\ seen[s] \in Nat
    BY <1>1, <1>4 DEF HeldAt, EngineAt
  <2>. DEFINE p == pulled[s]
              n == seen[s]
  <2>2. /\ IsSequence(p) /\ n + Len(p) <= Len(accepted')
        /\ p = SubSeq(accepted', n + 1, n + Len(p))
    <3>. HIDE DEF p, n
    <3>1. FromLog(p, n) /\ n \in Nat
      BY <2>1 DEF p, n
    <3>2. QED
      BY <1>2, <3>1, FromLogStays
  <2>3. QED
    BY <1>3, <2>2, Zenon DEF FromLog
<1>5. ASSUME pc[s] = "settle", NEW i \in writes[s]
      PROVE  WasPulled(s, outbox[d][i].batch)'
  <2>1. WasPulled(s, outbox[d][i].batch) /\ i \in DOMAIN outbox[d]
    BY <1>1, <1>5 DEF HeldAt, EngineAt
  <2>2. outbox'[d][i] = outbox[d][i]
    BY <1>1, <2>1 DEF RecordsStay
  <2>3. QED
    BY <1>3, <2>1, <2>2 DEF WasPulled
<1>6. ASSUME pc[s] \in {"answered", "record"}
      PROVE  \E i \in DOMAIN outbox'[d] : outbox'[d][i].batch = answer[s].batch
  <2>1. PICK i \in DOMAIN outbox[d] : outbox[d][i].batch = answer[s].batch
    BY <1>6 DEF HeldAt
  <2>2. i \in DOMAIN outbox'[d] /\ outbox'[d][i] = outbox[d][i]
    BY <1>1, <2>1 DEF RecordsStay
  <2>3. QED
    BY <2>1, <2>2
<1>7. pc[s] = "answered" => Ranged(answer[s], Len(accepted'), accepted')
  BY <1>2, RangedStays DEF HeldAt
<1>8. pc[s] = "record" => Ranged(answer[s], Len(local'[d]), accepted')
  BY <1>2, RangedStays DEF HeldAt
<1>. DEFINE next == pc'[s]
<1>9. QED
  BY <1>3, <1>4, <1>5, <1>6, <1>7, <1>8 DEF HeldAt

LEMMA HeldMoves ==
  ASSUME Inv, Grows, DevicesOK', RecordsStay, HeldInv, NEW s \in Sessions, HeldAt(s)',
         \A t \in Sessions \ {s} : Rests(t)
  PROVE  HeldInv'
<1>1. \A t \in Sessions \ {s} : HeldAt(t)'
  BY RestingHolds DEF HeldInv
<1>2. QED
  BY <1>1 DEF HeldInv

LEMMA HeldRests ==
  ASSUME Inv, Grows, DevicesOK', RecordsStay, HeldInv, UNCHANGED engine
  PROVE  HeldInv'
<1>1. \A s \in Sessions : Rests(s)
  BY DEF engine, memory, Rests
<1>2. QED
  BY <1>1, RestingHolds DEF HeldInv

\* At the other labels an engine holds nothing that the invariant speaks of.
LEMMA HoldsNothing ==
  ASSUME NEW s \in Sessions,
         pc'[s] \notin {"import", "reconcile", "settle", "answered", "record"}
  PROVE  HeldAt(s)'
<1>1. /\ pc'[s] # "import" /\ pc'[s] # "reconcile" /\ pc'[s] # "settle"
      /\ pc'[s] # "answered" /\ pc'[s] # "record"
  OBVIOUS
<1>2. QED
  BY <1>1 DEF HeldAt

LEMMA LeavesWithNothing ==
  ASSUME EnginesTyped, NEW s \in Sessions, NEW heard, Leave(s, heard)
  PROVE  HeldAt(s)'
<1>1. pc'[s] = "idle"
  BY DEF EnginesTyped, Leave, Goto
<1>2. QED
  BY <1>1, HoldsNothing

\* A step of an engine moves only this engine.
LEMMA OthersRest ==
  ASSUME EnginesTyped, NEW s \in Sessions,
         Attempt(s) \/ PushUnheard(s) \/ PushLate(s) \/ PushStale(s) \/ Stop(s),
         NEW t \in Sessions \ {s}
  PROVE  Rests(t)
<1>. USE DEF EnginesTyped
<1>1. pc'[t] = pc[t]
  BY DEF Attempt, Start, Pull, Import, Reconcile, Settle, SettleFirst,
     SavePulled, SaveCursor, Preflight, Screen, Screened, Push, Hear,
     ImportPushed, RecordVerdict, Advance, Finish, Offline, PushUnheard,
     PushLate, PushStale, Stop, End, Leave, Goto
<1>2. seen'[t] = seen[t]
  BY DEF Attempt, Start, Pull, Import, Reconcile, Settle, SettleFirst,
     SavePulled, SaveCursor, Preflight, Screen, Screened, Push, Hear,
     ImportPushed, RecordVerdict, Advance, Finish, Offline, PushUnheard,
     PushLate, PushStale, Stop, End
<1>3. pulled'[t] = pulled[t]
  BY DEF Attempt, Start, Pull, Import, Reconcile, Settle, SettleFirst,
     SavePulled, SaveCursor, Preflight, Screen, Screened, Push, Hear,
     ImportPushed, RecordVerdict, Advance, Finish, Offline, PushUnheard,
     PushLate, PushStale, Stop, End, Leave, memory
<1>4. writes'[t] = writes[t]
  BY DEF Attempt, Start, Pull, Import, Reconcile, Settle, SettleFirst,
     SavePulled, SaveCursor, Preflight, Screen, Screened, Push, Hear,
     ImportPushed, RecordVerdict, Advance, Finish, Offline, PushUnheard,
     PushLate, PushStale, Stop, End, Leave, memory
<1>5. sends'[t] = sends[t]
  BY DEF Attempt, Start, Pull, Import, Reconcile, Settle, SettleFirst,
     SavePulled, SaveCursor, Preflight, Screen, Screened, Push, Hear,
     ImportPushed, RecordVerdict, Advance, Finish, Offline, PushUnheard,
     PushLate, PushStale, Stop, End, Leave, memory
<1>6. answer'[t] = answer[t]
  BY DEF Attempt, Start, Pull, Import, Reconcile, Settle, SettleFirst,
     SavePulled, SaveCursor, Preflight, Screen, Screened, Push, Hear,
     ImportPushed, RecordVerdict, Advance, Finish, Offline, PushUnheard,
     PushLate, PushStale, Stop, End, Leave, memory
<1>7. QED
  BY <1>1, <1>2, <1>3, <1>4, <1>5, <1>6 DEF Rests
-----------------------------------------------------------------------------
(***************************************************************************)
(* The steps.  Inv' is known of each (InvStep).                            *)
(***************************************************************************)
SharedInv == LogInv /\ NamesInv /\ RangesInv /\ HeldInv

Others(s) == \A t \in Sessions \ {s} : Rests(t)

LEMMA StillGrows ==
  ASSUME Inv, Inv', LogGrows, RecordsStay,
         \A d \in Devices : local'[d] = local[d]
  PROVE  Grows /\ DevicesOK'
<1>1. \A d \in Devices : Len(local[d]) <= Len(local'[d])
  BY LengthsAreNatural
<1>2. \A d \in Devices : DOMAIN outbox[d] \subseteq DOMAIN outbox'[d]
  BY DEF RecordsStay
<1>3. QED
  BY <1>1, <1>2 DEF Grows, Inv

\* Only engine s moved.
LEMMA QuietStep ==
  ASSUME Inv, Inv', SharedInv, UNCHANGED <<core, local, outbox, written>>,
         late' \subseteq Written, NEW s \in Sessions, HeldAt(s)', Others(s)
  PROVE  SharedInv'
<1>1. LogGrows /\ accepted' = accepted
  BY LogUnchanged
<1>2. RecordsStay /\ Written' = Written
  BY DEF RecordsStay, Written
<1>3. Grows /\ DevicesOK'
  BY <1>1, <1>2, StillGrows
<1>4. LogInv'
  BY <1>1, <1>2, LogRests DEF SharedInv
<1>5. \A d \in Devices : NamedAt(d)'
  BY DEF SharedInv, NamesInv, NamedAt
<1>6. NamesInv'
  BY <1>2, <1>5 DEF SharedInv, NamesInv
<1>7. RangesInv'
  BY <1>2, <1>3, RangesStay DEF SharedInv
<1>8. HeldInv'
  BY <1>2, <1>3, HeldMoves DEF SharedInv, Others
<1>9. QED
  BY <1>4, <1>6, <1>7, <1>8 DEF SharedInv

\* A record of a known batch was added, and only engine s moved.
LEMMA RecordStep ==
  ASSUME Inv, Inv', SharedInv, UNCHANGED <<core, local, written, late>>,
         NEW s \in Sessions, Others(s), NEW d \in Devices, NEW e, OfKnownBatch(e, d),
         Ranged(e, Len(local[d]), accepted),
         outbox' = outbox \/ outbox' = [outbox EXCEPT ![d] = Append(@, e)],
         RecordsStay => HeldAt(s)'
  PROVE  SharedInv'
<1>1. LogGrows /\ accepted' = accepted
  BY LogUnchanged
<1>2. late' \subseteq Written
  BY DEF SharedInv, NamesInv
<1>3. /\ RecordsStay /\ Written' = Written /\ NamesInv'
      /\ \A c \in Devices : \A i \in DOMAIN outbox'[c] :
           i \in DOMAIN outbox[c] \/ (c = d /\ outbox'[c][i] = e)
  BY <1>2, KnownRecord DEF SharedInv
<1>4. Grows /\ DevicesOK'
  BY <1>1, <1>3, StillGrows
<1>5. LogInv'
  BY <1>1, <1>3, LogRests DEF SharedInv
<1>6. \A c \in Devices : \A i \in DOMAIN outbox'[c] :
        i \in DOMAIN outbox[c] \/ Ranged(outbox'[c][i], Len(local'[c]), accepted')
  BY <1>1, <1>3
<1>7. RangesInv'
  BY <1>3, <1>4, <1>6, RangesStay DEF SharedInv
<1>8. HeldInv'
  BY <1>3, <1>4, HeldMoves DEF SharedInv, Others
<1>9. QED
  BY <1>3, <1>5, <1>7, <1>8 DEF SharedInv

\* The service handled the push of a known batch.
LEMMA ServedStep ==
  ASSUME Inv, Inv', SharedInv, UNCHANGED <<local, outbox, written>>, late' \subseteq Written,
         NEW b \in Written, Perform(Verdict(b)),
         \/ UNCHANGED engine
         \/ \E s \in Sessions : HeldAt(s)' /\ Others(s)
  PROVE  SharedInv'
<1>1. LogInv'
  BY LogOfVerdict DEF SharedInv
<1>2. LogGrows
  BY WrittenIsNamed, PerformVerdict DEF SharedInv, BatchOf
<1>3. RecordsStay /\ Written' = Written
  BY DEF RecordsStay, Written
<1>4. Grows /\ DevicesOK'
  BY <1>2, <1>3, StillGrows
<1>5. \A d \in Devices : NamedAt(d)'
  BY DEF SharedInv, NamesInv, NamedAt
<1>6. NamesInv'
  BY <1>3, <1>5 DEF SharedInv, NamesInv
<1>7. RangesInv'
  BY <1>3, <1>4, RangesStay DEF SharedInv
<1>8. HeldInv'
  BY <1>3, <1>4, HeldMoves, HeldRests DEF SharedInv, Others
<1>9. QED
  BY <1>1, <1>6, <1>7, <1>8 DEF SharedInv

\* A range of the log was imported, and only engine s moved.
LEMMA ImportedStep ==
  ASSUME Inv, Inv', SharedInv, Grows, UNCHANGED <<core, outbox, written, late>>,
         NEW s \in Sessions, HeldAt(s)', Others(s)
  PROVE  SharedInv'
<1>1. accepted' = accepted
  BY DEF core
<1>2. RecordsStay /\ Written' = Written /\ DevicesOK'
  BY DEF RecordsStay, Written, Inv
<1>3. LogInv'
  BY <1>1, <1>2, LogRests DEF SharedInv
<1>4. \A d \in Devices : NamedAt(d)'
  BY DEF SharedInv, NamesInv, NamedAt
<1>5. NamesInv'
  BY <1>2, <1>4 DEF SharedInv, NamesInv
<1>6. RangesInv'
  BY <1>2, RangesStay DEF SharedInv
<1>7. HeldInv'
  BY <1>2, HeldMoves DEF SharedInv, Others
<1>8. QED
  BY <1>3, <1>5, <1>6, <1>7 DEF SharedInv

\* An import never shortens a replica.
LEMMA ImportLengthens ==
  ASSUME NEW replica, IsSequence(replica), NEW n, NEW events, IsSequence(events),
         Importable(replica, n, events)
  PROVE  Len(replica) <= Len(Imported(replica, n, events))
<1>. DEFINE kept == SubSeq(replica, 1, n - 1)
<1>1. Len(replica) \in Nat /\ Len(events) \in Nat /\ n \in 1..(Len(replica) + 1)
  BY SequenceDomain DEF Importable
<1>2. CASE n + Len(events) - 1 <= Len(replica)
  BY <1>1, <1>2 DEF Imported
<1>3. CASE ~(n + Len(events) - 1 <= Len(replica))
  <2>1. IsSequence(kept) /\ Len(kept) = n - 1
    BY <1>1, SubSequence
  <2>2. Len(kept \o events) = n - 1 + Len(events)
    BY <2>1, ConcatSequence
  <2>. HIDE DEF kept
  <2>3. Imported(replica, n, events) = kept \o events
    BY <1>3 DEF Imported, kept
  <2>4. QED
    BY <1>1, <1>3, <2>2, <2>3
<1>4. QED
  BY <1>2, <1>3

LEMMA ReplicaGrows ==
  ASSUME Inv, UNCHANGED <<core, outbox>>, NEW d \in Devices, NEW n, NEW events,
         IsSequence(events), Importable(local[d], n, events),
         local' = [local EXCEPT ![d] = Imported(@, n, events)]
  PROVE  Grows
<1>1. LogGrows
  BY LogUnchanged
<1>2. DOMAIN local = Devices /\ IsSequence(local[d])
  BY DEF Inv, DevicesOK, DeviceAt
<1>3. /\ local'[d] = Imported(local[d], n, events)
      /\ \A c \in Devices \ {d} : local'[c] = local[c]
  BY <1>2
<1>4. Len(local[d]) <= Len(local'[d])
  BY <1>2, <1>3, ImportLengthens
<1>5. QED
  BY <1>1, <1>3, <1>4, LengthsAreNatural DEF Grows

\* The actions that move one engine and change nothing else that matters here.
LEMMA QuietActions ==
  ASSUME Inv, Inv', SharedInv, NEW s \in Sessions, Others(s),
         \/ Start(s) \/ Pull(s) \/ Reconcile(s) \/ SavePulled(s) \/ Preflight(s)
         \/ Screened(s) \/ Advance(s) \/ Finish(s) \/ Offline(s) \/ Stop(s) \/ PushLate(s)
  PROVE  SharedInv'
<1>1. EnginesTyped /\ EngineAt(s) /\ DeviceOf[s] \in Devices /\ EngineAt(s)'
  BY EngineFacts DEF Inv, EnginesOK
<1>2. UNCHANGED <<core, local, outbox, written>>
  BY DEF Start, Pull, Reconcile, SavePulled, SaveCursor, Preflight, Screened, Advance,
     Finish, Offline, Stop, PushLate, device
<1>3. late' \subseteq Written
  <2>1. ToSend(s) \subseteq Written
    BY <1>1 DEF ToSend, Written, EngineAt
  <2>2. CASE PushLate(s)
    BY <2>1, <2>2 DEF PushLate, SharedInv, NamesInv
  <2>3. CASE ~PushLate(s)
    <3>1. late' = late
      BY <2>3 DEF Start, Pull, Reconcile, SavePulled, SaveCursor, Preflight, Screened,
         Advance, Finish, Offline, Stop
    <3>2. QED
      BY <3>1 DEF SharedInv, NamesInv
  <2>4. QED
    BY <2>2, <2>3
<1>4. CASE Pull(s)
  <2>1. pc'[s] \in {"import", "preflight"}
    BY <1>1, <1>4 DEF Pull, EnginesTyped, Goto
  <2>2. pc'[s] = "import" => FromLog(pulled[s], seen[s])'
    BY <1>1 DEF EngineAt
  <2>3. HeldAt(s)'
    BY <2>1, <2>2 DEF HeldAt
  <2>4. QED
    BY <1>2, <1>3, <2>3, QuietStep
<1>5. CASE Reconcile(s)
  <2>1. /\ pc[s] = "reconcile" /\ pc'[s] = "settle" /\ UNCHANGED <<seen, pulled>>
        /\ writes'[s] = {i \in PendingAt(DeviceOf[s]) :
                           WasPulled(s, outbox[DeviceOf[s]][i].batch)}
    BY <1>1, <1>5 DEF Reconcile, EnginesTyped, Goto, At
  <2>2. FromLog(pulled[s], seen[s])
    BY <2>1 DEF SharedInv, HeldInv, HeldAt
  <2>3. accepted' = accepted
    BY <1>2 DEF core
  <2>4. FromLog(pulled[s], seen[s])'
    BY <2>1, <2>2, <2>3, Zenon DEF FromLog
  <2>5. \A i \in writes'[s] : WasPulled(s, outbox[DeviceOf[s]][i].batch)'
    BY <1>2, <2>1 DEF WasPulled
  <2>6. HeldAt(s)'
    BY <2>1, <2>4, <2>5 DEF HeldAt
  <2>7. QED
    BY <1>2, <1>3, <2>6, QuietStep
<1>6. CASE ~Pull(s) /\ ~Reconcile(s)
  <2>1. pc'[s] \in {"idle", "pull", "preflight", "screen", "push"}
    BY <1>1, <1>6 DEF Start, SavePulled, SaveCursor, Preflight, Screened, Advance, Finish,
       Offline, Stop, PushLate, End, Leave, EnginesTyped, Goto
  <2>2. HeldAt(s)'
    BY <2>1, HoldsNothing
  <2>3. QED
    BY <1>2, <1>3, <2>2, QuietStep
<1>7. QED
  BY <1>4, <1>5, <1>6

\* An attempt that gives up.
LEMMA GivesUp ==
  ASSUME Inv, Inv', SharedInv, NEW s \in Sessions, Others(s), End(s),
         UNCHANGED <<core, local, outbox, written, late>>
  PROVE  SharedInv'
<1>1. HeldAt(s)'
  BY EngineFacts, LeavesWithNothing DEF End
<1>2. late' \subseteq Written
  BY DEF SharedInv, NamesInv
<1>3. QED
  BY <1>1, <1>2, QuietStep

LEMMA ImportActions ==
  ASSUME Inv, Inv', SharedInv, NEW s \in Sessions, Others(s), Import(s) \/ ImportPushed(s)
  PROVE  SharedInv'
<1>. DEFINE d == DeviceOf[s]
            range == SubSeq(accepted, answer[s].from, answer[s].to)
<1>1. /\ EnginesTyped /\ EngineAt(s) /\ d \in Devices /\ LogOK /\ EngineAt(s)' /\ HeldAt(s)
  BY EngineFacts DEF Inv, EnginesOK, SharedInv, HeldInv
<1>2. UNCHANGED <<core, outbox, written, late>> /\ accepted' = accepted
  BY DEF Import, ImportPushed, core
<1>3. CASE End(s) /\ UNCHANGED local
  BY <1>2, <1>3, GivesUp
<1>4. CASE Import(s) /\ Importable(local[d], seen[s] + 1, pulled[s])
  <2>1. /\ pc[s] = "import" /\ pc'[s] = "reconcile" /\ UNCHANGED <<seen, pulled>>
        /\ local' = [local EXCEPT ![d] = Imported(@, seen[s] + 1, pulled[s])]
    BY <1>1, <1>4 DEF Import, EnginesTyped, Goto, At, memory
  <2>2. FromLog(pulled[s], seen[s])
    BY <1>1, <2>1 DEF EngineAt
  <2>3. Grows
    BY <1>1, <1>2, <1>4, <2>1, <2>2, ReplicaGrows DEF FromLog
  <2>4. FromLog(pulled[s], seen[s])'
    BY <1>2, <2>1, <2>2, Zenon DEF FromLog
  <2>5. HeldAt(s)'
    BY <2>1, <2>4 DEF HeldAt
  <2>6. QED
    BY <1>2, <2>3, <2>5, ImportedStep
<1>5. CASE ImportPushed(s) /\ Importable(local[d], answer[s].from, range)
  <2>1. /\ pc[s] = "answered" /\ pc'[s] = "record" /\ answer' = answer
        /\ local' = [local EXCEPT ![d] = Imported(@, answer[s].from, range)]
    BY <1>1, <1>5 DEF ImportPushed, EnginesTyped, Goto, At, memory
  <2>2. /\ answer[s].from \in Nat /\ answer[s].to \in Nat /\ answer[s].to <= Len(accepted)
    BY <1>1, <2>1 DEF EngineAt, Bounded
  <2>3. answer[s].from \in Nat \ {0}
    <3>1. Len(local[d]) \in Nat
      BY <1>1, LengthsAreNatural
    <3>2. QED
      BY <1>5, <2>2, <3>1 DEF Importable
  <2>4. IsSequence(range)
    BY <1>1, <2>2, <2>3, SubSequence DEF LogOK
  <2>5. Grows
    <3>. HIDE DEF range
    <3>1. QED
      BY <1>1, <1>2, <1>5, <2>1, <2>4, ReplicaGrows
  <2>6. answer[s].to <= Len(local'[d])
    BY <1>1, <2>1 DEF EngineAt, Bounded
  <2>7. Ranged(answer[s], Len(accepted), accepted)
        /\ \E i \in DOMAIN outbox[d] : outbox[d][i].batch = answer[s].batch
    BY <1>1, <2>1 DEF HeldAt
  <2>8. HeldAt(s)'
    BY <1>2, <2>1, <2>6, <2>7 DEF HeldAt, Ranged
  <2>9. QED
    BY <1>2, <2>5, <2>8, ImportedStep
<1>6. QED
  BY <1>3, <1>4, <1>5 DEF Import, ImportPushed

\* The range that an engine finds a batch at in what it pulled is the batch.
LEMMA ReconciledIsRanged ==
  ASSUME Inv, SharedInv, NEW s \in Sessions, pc[s] = "settle", NEW b \in Written,
         WasPulled(s, b)
  PROVE  Ranged(Reconciled(s, b), Len(local[DeviceOf[s]]), accepted)
<1>. DEFINE p == pulled[s]
            at == {i \in DOMAIN p : \E e \in ToSet(b.events) : p[i].id = e.id}
            last == Len(b.events)
<1>1. /\ EngineAt(s) /\ HeldAt(s) /\ IsSequence(accepted) /\ DeviceOf[s] \in Devices
  BY EngineFacts DEF SharedInv, HeldInv, LogOK
<1>2. /\ seen[s] \in Nat /\ FromLog(p, seen[s])
      /\ seen[s] + Len(p) <= Len(local[DeviceOf[s]])
  BY <1>1 DEF EngineAt, HeldAt
<1>3. /\ IsSequence(p) /\ Len(p) \in Nat /\ DOMAIN p = 1..Len(p)
      /\ Len(accepted) \in Nat /\ seen[s] + Len(p) <= Len(accepted)
      /\ Len(local[DeviceOf[s]]) \in Nat
  BY <1>1, <1>2, SequenceDomain, LengthsAreNatural DEF FromLog
<1>4. \A i \in 1..Len(p) : p[i] = accepted[seen[s] + i]
  <2>. DEFINE m == seen[s] + 1
              n == seen[s] + Len(p)
  <2>1. m \in Nat \ {0} /\ n \in Nat /\ n <= Len(accepted) /\ n - m + 1 = Len(p)
    BY <1>2, <1>3
  <2>2. p = SubSeq(accepted, m, n)
    BY <1>2 DEF FromLog
  <2>. HIDE DEF m, n
  <2>3. \A i \in 1..(n - m + 1) : SubSeq(accepted, m, n)[i] = accepted[m + i - 1]
    BY <1>1, <2>1, SubSequence
  <2>4. \A i \in 1..Len(p) : p[i] = accepted[m + i - 1]
    BY <2>1, <2>2, <2>3
  <2>5. \A i \in 1..Len(p) : m + i - 1 = seen[s] + i
    BY <1>2 DEF m
  <2>6. QED
    BY <2>4, <2>5
<1>5. /\ IsSequence(b.events) /\ last \in Nat \ {0} /\ DOMAIN b.events = 1..last
  BY WrittenIsNamed, SequenceDomain, EmptyIsSequence, SequenceEqual DEF BatchOf, SharedInv
<1>6. ToSet(b.events) = {b.events[k] : k \in 1..last}
  BY <1>5 DEF ToSet
<1>. HIDE DEF p, last
<1>7. \A i \in at : i \in 1..Len(p) /\ \E k \in 1..last : accepted[seen[s] + i].id = b.events[k].id
  BY <1>3, <1>4, <1>6
<1>8. \A k \in 1..last : \E i \in at : accepted[seen[s] + i].id = b.events[k].id
  <2>. TAKE k \in 1..last
  <2>1. PICK x \in ToSet(p) : x.id = b.events[k].id
    BY <1>6 DEF WasPulled, p
  <2>2. PICK i \in DOMAIN p : x = p[i]
    BY <2>1 DEF ToSet
  <2>3. i \in at /\ p[i] = accepted[seen[s] + i]
    BY <1>3, <1>4, <1>6, <2>1, <2>2
  <2>4. QED
    BY <2>1, <2>2, <2>3
<1>9. at \subseteq 1..Len(p) /\ at # {}
  BY <1>5, <1>7, <1>8
<1>. HIDE DEF at
<1>10. \A i \in at : seen[s] + i \in 1..Len(accepted) /\ IsOf(accepted[seen[s] + i], b)
  BY <1>2, <1>3, <1>7 DEF IsOf, last
<1>11. PICK n \in Nat : StoredFrom(b, n, accepted)
  <2>1. ~Absent(b, accepted)
    BY <1>9, <1>10 DEF Absent
  <2>2. QED
    BY <2>1 DEF SharedInv, LogInv, AtOnePlace
<1>12. /\ n + last <= Len(accepted)
       /\ \A k \in 1..last : accepted[n + k] = b.events[k]
       /\ \A i \in 1..Len(accepted) : IsOf(accepted[i], b) => i \in n + 1..n + last
  BY <1>11 DEF StoredFrom, last
<1>13. \A i \in at : seen[s] + i \in n + 1..n + last
  BY <1>10, <1>12
<1>14. \A k \in 1..last : n + k - seen[s] \in at
  <2>. TAKE k \in 1..last
  <2>1. PICK i \in at : accepted[seen[s] + i].id = b.events[k].id
    BY <1>8
  <2>2. n + k \in 1..Len(accepted) /\ accepted[n + k].id = b.events[k].id
    BY <1>3, <1>5, <1>12
  <2>3. seen[s] + i = n + k
    BY <1>10, <2>1, <2>2 DEF SharedInv, LogInv, Distinct
  <2>4. i \in Nat
    BY <1>9
  <2>5. QED
    BY <1>2, <2>3, <2>4
<1>. DEFINE q == n - seen[s]
<1>15. q \in Nat
  <2>1. n + 1 - seen[s] \in at
    BY <1>5, <1>14
  <2>2. QED
    BY <1>2, <1>9, <2>1
<1>16. at = q + 1..q + last
  <2>0. n = q + seen[s] /\ n \in Nat
    BY <1>2, <1>11
  <2>. HIDE DEF q
  <2>1. \A i \in at : i \in q + 1..q + last
    BY <1>2, <1>5, <1>9, <1>13, <1>15, <2>0, SMTT(30)
  <2>2. \A i \in q + 1..q + last : i \in at
    <3>. TAKE i \in q + 1..q + last
    <3>1. i - q \in 1..last
      BY <1>5, <1>15
    <3>2. n + (i - q) - seen[s] = i
      BY <1>2, <1>15, <2>0, <3>1
    <3>3. QED
      BY <1>14, <3>1, <3>2
  <2>3. QED
    BY <2>1, <2>2
<1>17. /\ Min(at) = q + 1 /\ Max(at) = q + last /\ q + last \in at
  <2>1. Min(at) = q + 1 /\ Max(at) = q + last
    BY <1>5, <1>15, <1>16, EndsOfRange
  <2>2. q + last \in q + 1..q + last
    BY <1>5, <1>15
  <2>3. QED
    BY <1>16, <2>1, <2>2
<1>. DEFINE r == Reconciled(s, b)
<1>18. r.batch = b /\ r.from = seen[s] + Min(at) /\ r.to = seen[s] + Max(at)
  BY DEF Reconciled, Entry, at, p
<1>. HIDE DEF r
<1>19. r.from = n + 1 /\ r.to = n + last
  BY <1>2, <1>5, <1>17, <1>18
<1>20. r.to <= Len(local[DeviceOf[s]])
  <2>1. q + last \in 1..Len(p)
    BY <1>9, <1>17
  <2>. HIDE DEF q
  <2>2. r.to = seen[s] + (q + last) /\ q + last <= Len(p)
    BY <1>17, <1>18, <2>1
  <2>3. QED
    BY <1>2, <1>3, <1>5, <1>15, <2>2
<1>21. SubSeq(accepted, n + 1, n + Len(b.events)) = b.events
  BY <1>1, <1>5, <1>11, RangeOfStored
<1>22. SubSeq(accepted, r.from, r.to) = b.events
  BY <1>19, <1>21 DEF last
<1>23. r.from \in Nat \ {0} /\ r.to \in Nat
  BY <1>5, <1>11, <1>19
<1>24. Ranged(r, Len(local[DeviceOf[s]]), accepted)
  BY <1>18, <1>20, <1>22, <1>23 DEF Ranged
<1>25. QED
  BY <1>18, <1>24 DEF r

LEMMA RecordActions ==
  ASSUME Inv, Inv', SharedInv, NEW s \in Sessions, Others(s),
         Settle(s) \/ Screen(s) \/ RecordVerdict(s) \/ PushStale(s)
  PROVE  SharedInv'
<1>. DEFINE d == DeviceOf[s]
<1>1. /\ EnginesTyped /\ EngineAt(s) /\ d \in Devices /\ HeldAt(s)
  BY EngineFacts DEF SharedInv, HeldInv
<1>2. UNCHANGED <<core, local, written, late>> /\ accepted' = accepted
  BY DEF Settle, Screen, SettleFirst, RecordVerdict, PushStale, core
<1>3. CASE End(s) /\ UNCHANGED outbox
  BY <1>2, <1>3, GivesUp
<1>4. ASSUME Settle(s), ~(End(s) /\ UNCHANGED outbox) PROVE SharedInv'
  <2>1. PICK i \in writes[s] :
          /\ Update(d, Reconciled(s, outbox[d][i].batch))
          /\ writes' = [writes EXCEPT ![s] = @ \ {i}]
          /\ UNCHANGED <<pc, seen, pulled, sends, answer>>
    BY <1>4 DEF Settle, SettleFirst
  <2>. DEFINE b == outbox[d][i].batch
              e == Reconciled(s, b)
  <2>2. pc[s] = "settle" /\ i \in DOMAIN outbox[d] /\ WasPulled(s, b)
    BY <1>1, <1>4 DEF Settle, At, EngineAt, HeldAt
  <2>3. e.batch = b
    BY DEF Reconciled, Entry
  <2>4. OfKnownBatch(e, d)
    BY <2>2, <2>3 DEF OfKnownBatch
  <2>5. Ranged(e, Len(local[d]), accepted)
    <3>1. b \in Written
      BY <1>1, <2>2 DEF Written
    <3>2. QED
      BY <2>2, <3>1, ReconciledIsRanged
  <2>6. outbox' = outbox \/ outbox' = [outbox EXCEPT ![d] = Append(@, e)]
    BY <2>1 DEF Update
  <2>7. ASSUME RecordsStay PROVE HeldAt(s)'
    <3>1. pc'[s] = "settle" /\ writes'[s] \subseteq writes[s]
      BY <1>1, <2>1, <2>2 DEF EnginesTyped
    <3>2. \A j \in writes'[s] : outbox'[d][j] = outbox[d][j]
      BY <1>1, <2>7, <3>1 DEF RecordsStay, EngineAt
    <3>3. \A j \in writes'[s] : WasPulled(s, outbox[d][j].batch)'
      BY <1>1, <2>1, <2>2, <3>1, <3>2 DEF HeldAt, WasPulled
    <3>4. FromLog(pulled[s], seen[s])
      BY <1>1, <2>2 DEF HeldAt
    <3>5. FromLog(pulled[s], seen[s])'
      BY <1>2, <2>1, <3>4, Zenon DEF FromLog
    <3>6. QED
      BY <3>1, <3>3, <3>5 DEF HeldAt
  <2>. HIDE DEF e
  <2>8. QED
    BY <1>1, <1>2, <2>4, <2>5, <2>6, <2>7, RecordStep
<1>5. ASSUME Screen(s), ~(End(s) /\ UNCHANGED outbox) PROVE SharedInv'
  <2>1. PICK i \in writes[s] :
          /\ Update(d, Entry(outbox[d][i].batch, "rejected", "preflight"))
          /\ UNCHANGED pc
    BY <1>5 DEF Screen, SettleFirst
  <2>. DEFINE e == Entry(outbox[d][i].batch, "rejected", "preflight")
  <2>2. pc'[s] = "screen" /\ i \in DOMAIN outbox[d]
    BY <1>1, <1>5, <2>1 DEF Screen, At, EngineAt
  <2>3. OfKnownBatch(e, d) /\ Ranged(e, Len(local[d]), accepted)
    BY <2>2 DEF OfKnownBatch, Entry, Ranged
  <2>4. outbox' = outbox \/ outbox' = [outbox EXCEPT ![d] = Append(@, e)]
    BY <2>1 DEF Update
  <2>5. HeldAt(s)'
    BY <2>2, HoldsNothing
  <2>. HIDE DEF e
  <2>6. QED
    BY <1>1, <1>2, <2>3, <2>4, <2>5, RecordStep
<1>6. ASSUME RecordVerdict(s), ~(End(s) /\ UNCHANGED outbox) PROVE SharedInv'
  <2>. DEFINE e == answer[s]
  <2>1. pc[s] = "record" /\ Update(d, e) /\ pc'[s] \in {"advance", "push"}
    BY <1>1, <1>6 DEF RecordVerdict, At, EnginesTyped, Goto
  <2>2. OfKnownBatch(e, d) /\ Ranged(e, Len(local[d]), accepted)
    BY <1>1, <2>1 DEF OfKnownBatch, HeldAt
  <2>3. outbox' = outbox \/ outbox' = [outbox EXCEPT ![d] = Append(@, e)]
    BY <2>1 DEF Update
  <2>4. HeldAt(s)'
    BY <2>1, HoldsNothing
  <2>. HIDE DEF e
  <2>5. QED
    BY <1>1, <1>2, <2>2, <2>3, <2>4, RecordStep
<1>7. ASSUME PushStale(s) PROVE SharedInv'
  <2>1. PICK batch \in ToSend(s) : Update(d, Entry(batch, "pending", "stale"))
    BY <1>7 DEF PushStale
  <2>2. PICK i \in sends[s] : batch = outbox[d][i].batch
    BY DEF ToSend
  <2>. DEFINE e == Entry(batch, "pending", "stale")
  <2>3. OfKnownBatch(e, d) /\ Ranged(e, Len(local[d]), accepted)
    BY <1>1, <2>2 DEF OfKnownBatch, Entry, Ranged, EngineAt
  <2>4. outbox' = outbox \/ outbox' = [outbox EXCEPT ![d] = Append(@, e)]
    BY <2>1 DEF Update
  <2>5. HeldAt(s)'
    BY <1>1, <1>7, LeavesWithNothing DEF PushStale, End
  <2>. HIDE DEF e
  <2>6. QED
    BY <1>1, <1>2, <2>3, <2>4, <2>5, RecordStep
<1>8. QED
  BY <1>3, <1>4, <1>5, <1>6, <1>7

LEMMA PushActions ==
  ASSUME Inv, Inv', SharedInv, NEW s \in Sessions, Others(s), Push(s) \/ PushUnheard(s)
  PROVE  SharedInv'
<1>. DEFINE d == DeviceOf[s]
<1>1. /\ EnginesTyped /\ EngineAt(s) /\ d \in Devices /\ LogInv /\ NamesInv
  BY EngineFacts DEF SharedInv
<1>2. UNCHANGED <<local, outbox, written, late>>
  BY DEF Push, PushUnheard, device
<1>3. PICK b \in ToSend(s) :
        /\ Perform(Verdict(b))
        /\ End(s) \/ Hear(s, b, Verdict(b))
  BY DEF Push, PushUnheard
<1>4. PICK i \in sends[s] : b = outbox[d][i].batch
  BY DEF ToSend
<1>5. i \in DOMAIN outbox[d] /\ b \in Written
  BY <1>1, <1>4 DEF EngineAt, Written
<1>. DEFINE v == Verdict(b)
            verdict == [Entry(b, v.status, "pushed") EXCEPT !.from = v.from, !.to = v.to]
<1>6. v.status = "accepted" =>
        /\ v.from \in Nat \ {0} /\ v.to \in Nat /\ v.to <= Len(accepted')
        /\ SubSeq(accepted', v.from, v.to) = b.events
  BY <1>1, <1>2, <1>3, <1>5, LogOfVerdict
<1>7. Hear(s, b, v) \/ End(s)
  BY <1>3
<1>. HIDE DEF v
<1>8. /\ verdict.batch = b /\ verdict.status = v.status
      /\ verdict.from = v.from /\ verdict.to = v.to
  BY DEF Entry
<1>. HIDE DEF verdict
<1>9. Ranged(verdict, Len(accepted'), accepted')
  BY <1>6, <1>8 DEF Ranged
<1>10. \E j \in DOMAIN outbox'[d] : outbox'[d][j].batch = verdict.batch
  BY <1>2, <1>4, <1>5, <1>8
<1>11. HeldAt(s)'
  <2>1. CASE answer' = [answer EXCEPT ![s] = verdict] /\ Goto(s, "answered")
    <3>1. pc'[s] = "answered" /\ answer'[s] = verdict
      BY <1>1, <2>1 DEF EnginesTyped, Goto
    <3>2. QED
      BY <1>9, <1>10, <3>1 DEF HeldAt
  <2>2. CASE /\ v.status \in {"rejected", "conflict"}
             /\ answer' = [answer EXCEPT ![s] = verdict] /\ Goto(s, "record")
    <3>1. pc'[s] = "record" /\ answer'[s] = verdict
      BY <1>1, <2>2 DEF EnginesTyped, Goto
    <3>2. Ranged(verdict, Len(local'[d]), accepted')
      BY <1>8, <2>2 DEF Ranged
    <3>3. QED
      BY <1>10, <3>1, <3>2 DEF HeldAt
  <2>3. CASE End(s) \/ Leave(s, verdict)
    BY <1>1, <2>3, LeavesWithNothing DEF End
  <2>4. QED
    BY <1>7, <2>1, <2>2, <2>3 DEF Hear, verdict
<1>12. late' \subseteq Written
  BY <1>1, <1>2 DEF NamesInv
<1>13. Perform(Verdict(b))
  BY <1>3
<1>14. QED
  BY <1>2, <1>5, <1>11, <1>12, <1>13, ServedStep

LEMMA DeliverLateAction ==
  ASSUME Inv, Inv', SharedInv, DeliverLate
  PROVE  SharedInv'
<1>1. PICK b \in late : Perform(Verdict(b)) /\ late' = late \ {b}
  BY DEF DeliverLate
<1>2. UNCHANGED <<local, outbox, written, engine>>
  BY DEF DeliverLate, device
<1>3. b \in Written /\ late' \subseteq Written
  BY <1>1 DEF SharedInv, NamesInv
<1>4. QED
  BY <1>1, <1>2, <1>3, ServedStep

\* The service without a call, and a step that changes nothing.
LEMMA ServiceActions ==
  ASSUME Inv, Inv', SharedInv, Service \/ UNCHANGED vars
  PROVE  SharedInv'
<1>1. UNCHANGED <<accepted, local, outbox, written, engine, late>>
  BY DEF Service, Restart, Crash, Tick, Facts, vars, core, device, Inv, LogOK
<1>2. LogGrows
  BY <1>1, PrefixReflexive DEF LogGrows, Inv, LogOK
<1>3. RecordsStay /\ Written' = Written
  BY <1>1 DEF RecordsStay, Written
<1>4. Grows /\ DevicesOK'
  BY <1>1, <1>2, <1>3, StillGrows
<1>5. LogInv'
  BY <1>1, <1>3, LogRests DEF SharedInv
<1>6. \A d \in Devices : NamedAt(d)'
  BY <1>1 DEF SharedInv, NamesInv, NamedAt
<1>7. NamesInv'
  BY <1>1, <1>3, <1>6 DEF SharedInv, NamesInv
<1>8. RangesInv'
  BY <1>1, <1>3, <1>4, RangesStay DEF SharedInv
<1>9. HeldInv'
  BY <1>1, <1>3, <1>4, HeldRests DEF SharedInv
<1>10. QED
  BY <1>5, <1>7, <1>8, <1>9 DEF SharedInv

(***************************************************************************)
(* The device writes a batch: its name is new, so it is nowhere yet.       *)
(***************************************************************************)
LEMMA NextBatchIsNew ==
  ASSUME Inv, FunctionsOK, SharedInv, NEW d \in Devices, LocalAppend(d)
  PROVE  /\ written[d] + 1 \in DOMAIN Work[d]
         /\ BatchOf(NextBatch(d), Work[d][written[d] + 1].name)
         /\ \A b \in Written : b.id # NextBatch(d).id
         /\ Absent(NextBatch(d), accepted)
<1>. DEFINE k == written[d] + 1
            x == Work[d][k].name
            b == NextBatch(d)
            steps == Work[d][k].steps
<1>1. written[d] \in Nat /\ k \in DOMAIN Work[d]
  BY WorkAssumption, SequenceDomain DEF LocalAppend, FunctionsOK
<1>2. IsSequence(steps) /\ steps # <<>>
  BY <1>1, WorkAssumption
<1>3. Len(steps) \in Nat /\ DOMAIN steps = 1..Len(steps) /\ Len(steps) # 0
  BY <1>2, SequenceDomain, EmptyIsSequence, SequenceEqual
<1>4. /\ b.id = <<x, 0>> /\ b.events = [i \in 1..Len(steps) |-> b.events[i]]
      /\ \A i \in 1..Len(steps) : b.events[i].id = <<x, i>> /\ b.events[i].batch = <<x, 0>>
  BY <1>3 DEF NextBatch, NewEvent
<1>. HIDE DEF b, steps
<1>5. IsSequence(b.events) /\ Len(b.events) = Len(steps)
  BY <1>3, <1>4, FunctionIsSequence
<1>6. BatchOf(b, x)
  BY <1>3, <1>4, <1>5, EmptyIsSequence DEF BatchOf
<1>7. \A a \in Written : \E c \in Devices : \E j \in DOMAIN Work[c] :
        BatchOf(a, Work[c][j].name) /\ Work[c][j].name # x
  <2>. TAKE a \in Written
  <2>1. PICK c \in Devices : \E j \in DOMAIN Work[c] :
          j <= written[c] /\ BatchOf(a, Work[c][j].name)
    BY WrittenIsNamed DEF SharedInv
  <2>2. PICK j \in DOMAIN Work[c] : j <= written[c] /\ BatchOf(a, Work[c][j].name)
    BY <2>1
  <2>3. Work[c][j].name = x => c = d /\ j = k
    BY <1>1, NamesAssumption
  <2>4. Work[c][j].name # x
    BY <1>1, <2>2, <2>3
  <2>5. QED
    BY <2>2, <2>4
<1>8. \A a \in Written : a.id # b.id
  <2>. TAKE a \in Written
  <2>1. PICK c \in Devices : \E j \in DOMAIN Work[c] :
          BatchOf(a, Work[c][j].name) /\ Work[c][j].name # x
    BY <1>7
  <2>2. PICK j \in DOMAIN Work[c] : BatchOf(a, Work[c][j].name) /\ Work[c][j].name # x
    BY <2>1
  <2>. DEFINE y == Work[c][j].name
  <2>3. a.id = <<y, 0>> /\ y # x
    BY <2>2 DEF BatchOf
  <2>. HIDE DEF x, y
  <2>4. QED
    BY <1>4, <2>3
<1>9. ASSUME NEW i \in 1..Len(accepted) PROVE ~IsOf(accepted[i], b)
  <2>. DEFINE e == accepted[i]
  <2>1. FromSeed(e) \/ FromService(e, i) \/ FromBatch(e, Written)
    BY DEF SharedInv, LogInv, Founded
  <2>2. ASSUME IsOf(e, b) PROVE e.batch = <<x, 0>> \/ \E q \in 1..Len(steps) : e.id = <<x, q>>
    BY <1>4, <1>5, <2>2 DEF IsOf
  <2>3. CASE FromSeed(e)
    <3>1. e.batch # <<x, 0>> /\ e.id[1] # x
      BY <1>1, <2>3, NamesAssumption DEF FromSeed
    <3>. HIDE DEF x
    <3>2. QED
      BY <2>2, <3>1
  <2>4. CASE FromService(e, i)
    <3>1. x # "svc"
      BY <1>1, NamesAssumption
    <3>. HIDE DEF x
    <3>2. QED
      BY <2>2, <2>4, <3>1 DEF FromService
  <2>5. CASE FromBatch(e, Written)
    <3>1. PICK a \in Written : \E l \in 1..Len(a.events) : e = a.events[l]
      BY <2>5 DEF FromBatch
    <3>2. PICK l \in 1..Len(a.events) : e = a.events[l]
      BY <3>1
    <3>3. PICK c \in Devices : \E j \in DOMAIN Work[c] :
            BatchOf(a, Work[c][j].name) /\ Work[c][j].name # x
      BY <1>7
    <3>4. PICK j \in DOMAIN Work[c] : BatchOf(a, Work[c][j].name) /\ Work[c][j].name # x
      BY <3>3
    <3>. DEFINE y == Work[c][j].name
    <3>5. e.id = <<y, l>> /\ e.batch = <<y, 0>> /\ y # x
      BY <3>2, <3>4 DEF BatchOf
    <3>. HIDE DEF x, y
    <3>6. QED
      BY <2>2, <3>5
  <2>6. QED
    BY <2>1, <2>3, <2>4, <2>5
<1>10. QED
  BY <1>1, <1>6, <1>8, <1>9 DEF Absent, b

LEMMA LocalAppendAction ==
  ASSUME Inv, Inv', FunctionsOK, SharedInv, NEW d \in Devices, LocalAppend(d)
  PROVE  SharedInv'
<1>. DEFINE b == NextBatch(d)
            e == Entry(b, "pending", "written")
            x == Work[d][written[d] + 1].name
            n == Len(outbox[d])
<1>1. /\ outbox' = [outbox EXCEPT ![d] = Append(@, e)]
      /\ written' = [written EXCEPT ![d] = @ + 1]
      /\ UNCHANGED <<core, local, engine, late>>
  BY DEF LocalAppend
<1>2. LogGrows /\ accepted' = accepted
  BY <1>1, LogUnchanged
<1>3. DOMAIN outbox = Devices /\ IsSequence(outbox[d]) /\ written \in [Devices -> Nat]
  BY DEF Inv, DevicesOK, DeviceAt, FunctionsOK
<1>4. /\ written[d] + 1 \in DOMAIN Work[d] /\ BatchOf(b, x)
      /\ \A a \in Written : a.id # b.id
      /\ Absent(b, accepted)
  BY NextBatchIsNew
<1>5. e.batch = b /\ e.status = "pending"
  BY DEF Entry
<1>. HIDE DEF b, e
<1>6. /\ outbox'[d] = Append(outbox[d], e) /\ written'[d] = written[d] + 1
      /\ \A c \in Devices \ {d} : outbox'[c] = outbox[c] /\ written'[c] = written[c]
  BY <1>1, <1>3
<1>7. /\ n \in Nat /\ DOMAIN outbox[d] = 1..n /\ DOMAIN outbox'[d] = 1..(n + 1)
      /\ \A i \in 1..n : outbox'[d][i] = outbox[d][i]
      /\ outbox'[d][n + 1] = e
  BY <1>3, <1>6, AppendSequence, SequenceDomain
<1>8. RecordsStay
  BY <1>6, <1>7, SMTT(30) DEF RecordsStay
<1>9. ASSUME NEW c \in Devices, NEW i \in DOMAIN outbox'[c]
      PROVE  i \in DOMAIN outbox[c] \/ (c = d /\ outbox'[c][i] = e)
  <2>1. CASE c = d
    BY <1>7, <2>1
  <2>2. CASE c # d
    BY <1>6, <2>2
  <2>3. QED
    BY <2>1, <2>2
<1>10. Written' = Written \cup {b}
  <2>1. ASSUME NEW a \in Written' PROVE a \in Written \cup {b}
    <3>1. PICK c \in Devices : \E i \in DOMAIN outbox'[c] : a = outbox'[c][i].batch
      BY <2>1 DEF Written
    <3>2. PICK i \in DOMAIN outbox'[c] : a = outbox'[c][i].batch
      BY <3>1
    <3>3. CASE i \in DOMAIN outbox[c]
      BY <1>8, <3>2, <3>3 DEF RecordsStay, Written
    <3>4. CASE c = d /\ outbox'[c][i] = e
      BY <1>5, <3>2, <3>4
    <3>5. QED
      BY <1>9, <3>3, <3>4
  <2>2. Written \subseteq Written'
    BY <1>8 DEF Written, RecordsStay
  <2>3. b \in Written'
    BY <1>5, <1>7 DEF Written
  <2>4. QED
    BY <2>1, <2>2, <2>3
<1>11. Grows /\ DevicesOK'
  BY <1>1, <1>2, <1>8, StillGrows
<1>12. LogInv'
  <2>1. \A a \in Written' : AtOnePlace(a, accepted')
    BY <1>2, <1>4, <1>10 DEF SharedInv, LogInv, AtOnePlace
  <2>2. Founded(accepted', Written')
    BY <1>2, <1>10 DEF SharedInv, LogInv, Founded, FromBatch
  <2>3. QED
    BY <1>2, <2>1, <2>2 DEF SharedInv, LogInv
<1>13. ASSUME NEW c \in Devices PROVE NamedAt(c)'
  <2>. SUFFICES ASSUME NEW i \in DOMAIN outbox'[c]
                PROVE  \E k \in DOMAIN Work[c] :
                         k <= written'[c] /\ BatchOf(outbox'[c][i].batch, Work[c][k].name)
    BY DEF NamedAt
  <2>1. CASE i \in DOMAIN outbox[c]
    <3>1. PICK k \in DOMAIN Work[c] :
            k <= written[c] /\ BatchOf(outbox[c][i].batch, Work[c][k].name)
      BY <2>1 DEF SharedInv, NamesInv, NamedAt
    <3>2. k \in Nat /\ written[c] \in Nat /\ written'[c] \in Nat /\ written[c] <= written'[c]
      <4>1. IsSequence(Work[c])
        BY WorkAssumption
      <4>2. k \in Nat
        BY <4>1, SequenceDomain
      <4>3. QED
        BY <1>3, <1>6, <4>2
    <3>3. k <= written'[c] /\ outbox'[c][i] = outbox[c][i]
      BY <1>8, <2>1, <3>1, <3>2 DEF RecordsStay
    <3>4. QED
      BY <3>1, <3>3
  <2>2. CASE c = d /\ outbox'[c][i] = e
    <3>1. written[d] + 1 <= written'[d]
      BY <1>3, <1>6
    <3>2. QED
      BY <1>4, <1>5, <2>2, <3>1
  <2>3. QED
    BY <1>9, <2>1, <2>2
<1>14. NamesInv'
  BY <1>1, <1>4, <1>10, <1>13 DEF SharedInv, NamesInv
<1>15. \A c \in Devices : \A i \in DOMAIN outbox'[c] :
         i \in DOMAIN outbox[c] \/ Ranged(outbox'[c][i], Len(local'[c]), accepted')
  BY <1>5, <1>9 DEF Ranged
<1>16. RangesInv'
  BY <1>8, <1>11, <1>15, RangesStay DEF SharedInv
<1>17. HeldInv'
  BY <1>1, <1>8, <1>11, HeldRests DEF SharedInv
<1>18. QED
  BY <1>12, <1>14, <1>16, <1>17 DEF SharedInv
-----------------------------------------------------------------------------
LEMMA SharedInitially ==
  ASSUME Init
  PROVE  SharedInv
<1>1. IsSequence(Seed) /\ DOMAIN Seed = 1..Len(Seed)
  BY SeedAssumption, SequenceDomain
<1>2. \A d \in Devices : outbox[d] = <<>> /\ DOMAIN outbox[d] = {}
  BY DEF Init
<1>3. Written = {}
  BY <1>2 DEF Written
<1>4. LogInv
  BY <1>1, <1>3, NamesAssumption DEF Init, LogInv, Founded, FromSeed, Distinct
<1>5. NamesInv /\ RangesInv
  BY <1>2, <1>3 DEF Init, NamesInv, NamedAt, RangesInv
<1>6. HeldInv
  BY DEF Init, HeldInv, HeldAt
<1>7. QED
  BY <1>4, <1>5, <1>6 DEF SharedInv

LEMMA SharedStep ==
  ASSUME Inv, Inv', FunctionsOK, SharedInv, [Next]_vars
  PROVE  SharedInv'
<1>1. ASSUME NEW s \in Sessions,
             Attempt(s) \/ PushUnheard(s) \/ PushLate(s) \/ PushStale(s) \/ Stop(s)
      PROVE  SharedInv'
  <2>1. Others(s)
    BY <1>1, OthersRest DEF Others, Inv, EnginesOK
  <2>2. QED
    BY <1>1, <2>1, QuietActions, ImportActions, RecordActions, PushActions DEF Attempt
<1>2. ASSUME NEW d \in Devices, LocalAppend(d) PROVE SharedInv'
  BY <1>2, LocalAppendAction
<1>3. QED
  BY <1>1, <1>2, DeliverLateAction, ServiceActions DEF Next

\* The batches, the ranges and what the engines hold, in every reachable state.
THEOREM SharedInvariance == Spec => [](Inv /\ SharedInv)
<1>1. Init => Inv /\ FunctionsOK /\ SharedInv
  BY InvInitially, SharedInitially
<1>2. Inv /\ FunctionsOK /\ SharedInv /\ [Next]_vars => (Inv /\ FunctionsOK /\ SharedInv)'
  <2>1. SUFFICES ASSUME Inv, FunctionsOK, SharedInv, [Next]_vars
                 PROVE  (Inv /\ FunctionsOK /\ SharedInv)'
    OBVIOUS
  <2>2. Inv' /\ FunctionsOK'
    BY <2>1, InvStep, FunctionsStep
  <2>3. SharedInv'
    BY <2>1, <2>2, SharedStep
  <2>4. QED
    BY <2>2, <2>3
<1>3. QED
  BY <1>1, <1>2, PTL DEF Spec

(***************************************************************************)
(* The outbox tells the truth about acceptance: an accepted entry names    *)
(* the range of the replica that holds its batch, whichever of the pull    *)
(* (reconcilePulled) and the push brought the news, and for any number of  *)
(* retries, lost answers and engines on one device.                        *)
(***************************************************************************)
THEOREM AcceptedEntriesAreHeld == Spec => []AcceptedIsInReplica
<1>1. Inv /\ SharedInv => AcceptedIsInReplica
  <2>. SUFFICES ASSUME Inv, SharedInv, NEW d \in Devices, NEW e \in Entries(d),
                       e.status = "accepted"
                PROVE  SubSeq(local[d], e.from, e.to) = e.batch.events
    BY DEF AcceptedIsInReplica
  <2>1. Ranged(e, Len(local[d]), accepted)
    BY DEF Entries, EntriesAt, SharedInv, RangesInv
  <2>2. /\ e.from \in Nat \ {0} /\ e.to \in Nat /\ e.to <= Len(local[d])
        /\ SubSeq(accepted, e.from, e.to) = e.batch.events
    BY <2>1 DEF Ranged
  <2>3. IsSequence(local[d]) /\ IsSequence(accepted) /\ IsPrefix(local[d], accepted)
    BY DEF Inv, LogOK, DevicesOK, DeviceAt
  <2>4. QED
    <3>. DEFINE replica == local[d]
                from == e.from
                to == e.to
    <3>1. /\ IsSequence(replica) /\ IsSequence(accepted) /\ IsPrefix(replica, accepted)
          /\ from \in Nat \ {0} /\ to \in Nat /\ to <= Len(replica)
      BY <2>2, <2>3
    <3>. HIDE DEF replica, from, to
    <3>2. SubSeq(replica, from, to) = SubSeq(accepted, from, to)
      BY <3>1, PrefixKeepsRange
    <3>3. QED
      BY <2>2, <3>2 DEF replica, from, to
<1>2. QED
  BY <1>1, SharedInvariance, PTL
-----------------------------------------------------------------------------
(***************************************************************************)
(* The devices implement the shared log.                                   *)
(***************************************************************************)
\* An entry of a device is its batch's last record.
LEMMA OneEntry ==
  ASSUME Inv, NEW d \in Devices, NEW i \in EntriesAt(d), NEW j \in EntriesAt(d),
         outbox[d][i].batch.id = outbox[d][j].batch.id
  PROVE  i = j
<1>1. i \in DOMAIN outbox[d] /\ j \in DOMAIN outbox[d] /\ IsEntry(d, i) /\ IsEntry(d, j)
  BY DEF EntriesAt
<1>2. i \in Nat /\ j \in Nat
  BY <1>1, SequenceDomain DEF Inv, DevicesOK, DeviceAt
<1>3. ~(j > i) /\ ~(i > j)
  BY <1>1 DEF IsEntry
<1>4. QED
  BY <1>2, <1>3

\* A new record takes the place of the entry of its batch.
LEMMA EntriesAfterRecord ==
  ASSUME Inv, NEW d \in Devices, NEW e, outbox' = [outbox EXCEPT ![d] = Append(@, e)],
         \A i \in EntriesAt(d) :
           outbox[d][i].batch.id = e.batch.id => outbox[d][i].status # "accepted"
  PROVE  /\ ConfirmedBy(d)' = IF e.status = "accepted"
                              THEN ConfirmedBy(d) \cup {ToSet(e.batch.events)}
                              ELSE ConfirmedBy(d)
         /\ \A c \in Devices \ {d} : ConfirmedBy(c)' = ConfirmedBy(c)
<1>. DEFINE n == Len(outbox[d])
            Held(c) == {x \in Entries(c) : x.status = "accepted"}
<1>1. DOMAIN outbox = Devices /\ IsSequence(outbox[d])
  BY DEF Inv, DevicesOK, DeviceAt
<1>2. outbox'[d] = Append(outbox[d], e) /\ \A c \in Devices \ {d} : outbox'[c] = outbox[c]
  BY <1>1
<1>3. /\ n \in Nat /\ DOMAIN outbox[d] = 1..n /\ DOMAIN outbox'[d] = 1..(n + 1)
      /\ \A i \in 1..n : outbox'[d][i] = outbox[d][i]
      /\ outbox'[d][n + 1] = e
  BY <1>1, <1>2, AppendSequence, SequenceDomain
<1>. HIDE DEF n
<1>4. ASSUME NEW i \in EntriesAt(d)'
      PROVE  outbox'[d][i] = e \/ outbox'[d][i] \in Entries(d)
  <2>1. /\ i \in 1..(n + 1)
        /\ \A j \in 1..(n + 1) : j > i => outbox'[d][j].batch.id # outbox'[d][i].batch.id
    BY <1>3 DEF EntriesAt, IsEntry
  <2>2. CASE i = n + 1
    BY <1>3, <2>2
  <2>3. CASE i # n + 1
    <3>1. i \in 1..n /\ outbox'[d][i] = outbox[d][i]
      BY <1>3, <2>1, <2>3
    <3>2. \A j \in 1..n : j \in 1..(n + 1) /\ outbox'[d][j] = outbox[d][j]
      BY <1>3
    <3>3. i \in EntriesAt(d)
      BY <1>3, <2>1, <3>1, <3>2 DEF EntriesAt, IsEntry
    <3>4. QED
      BY <3>1, <3>3 DEF Entries
  <2>4. QED
    BY <2>2, <2>3
<1>5. ASSUME NEW i \in EntriesAt(d), outbox[d][i].status = "accepted"
      PROVE  outbox[d][i] \in Entries(d)'
  <2>1. /\ i \in 1..n /\ \A j \in 1..n : j > i => outbox[d][j].batch.id # outbox[d][i].batch.id
        /\ outbox[d][i].batch.id # e.batch.id
    BY <1>3, <1>5 DEF EntriesAt, IsEntry
  <2>2. i \in 1..(n + 1) /\ outbox'[d][i] = outbox[d][i]
    BY <1>3, <2>1
  <2>3. \A j \in 1..(n + 1) : j > i => outbox'[d][j].batch.id # outbox'[d][i].batch.id
    <3>. TAKE j \in 1..(n + 1)
    <3>1. CASE j = n + 1
      BY <1>3, <2>1, <2>2, <3>1
    <3>2. CASE j # n + 1
      <4>1. j \in 1..n
        BY <1>3, <3>2
      <4>2. QED
        BY <1>3, <2>1, <2>2, <4>1
    <3>3. QED
      BY <3>1, <3>2
  <2>4. i \in EntriesAt(d)'
    BY <1>3, <2>2, <2>3 DEF EntriesAt, IsEntry
  <2>5. QED
    BY <2>2, <2>4 DEF Entries
<1>6. e \in Entries(d)'
  <2>1. n + 1 \in 1..(n + 1) /\ \A j \in 1..(n + 1) : ~(j > n + 1)
    BY <1>3
  <2>2. n + 1 \in EntriesAt(d)'
    BY <1>3, <2>1 DEF EntriesAt, IsEntry
  <2>3. QED
    BY <1>3, <2>2 DEF Entries
<1>7. \A x : x \in Held(d)' <=> x \in Held(d) \/ (x = e /\ e.status = "accepted")
  <2>. TAKE x
  <2>1. ASSUME x \in Held(d)' PROVE x \in Held(d) \/ (x = e /\ e.status = "accepted")
    <3>1. PICK i \in EntriesAt(d)' : x = outbox'[d][i]
      BY <2>1 DEF Entries
    <3>2. QED
      BY <1>4, <2>1, <3>1
  <2>2. ASSUME x \in Held(d) PROVE x \in Held(d)'
    <3>1. PICK i \in EntriesAt(d) : x = outbox[d][i]
      BY <2>2 DEF Entries
    <3>2. QED
      BY <1>5, <2>2, <3>1
  <2>3. QED
    BY <1>6, <2>1, <2>2
<1>8. \A c \in Devices \ {d} : ConfirmedBy(c)' = ConfirmedBy(c)
  BY <1>2 DEF ConfirmedBy, Entries, EntriesAt, IsEntry
<1>9. /\ ConfirmedBy(d) = {ToSet(x.batch.events) : x \in Held(d)}
      /\ ConfirmedBy(d)' = {ToSet(x.batch.events) : x \in Held(d)'}
  BY DEF ConfirmedBy
<1>. DEFINE held == Held(d)
            then == Held(d)'
<1>. HIDE DEF Held, held, then
<1>10. /\ ConfirmedBy(d) = {ToSet(x.batch.events) : x \in held}
       /\ ConfirmedBy(d)' = {ToSet(x.batch.events) : x \in then}
       /\ \A x : x \in then <=> x \in held \/ (x = e /\ e.status = "accepted")
  BY <1>7, <1>9 DEF held, then
<1>11. CASE e.status = "accepted"
  <2>1. then = held \cup {e}
    BY <1>10, <1>11
  <2>2. {ToSet(x.batch.events) : x \in held \cup {e}}
          = {ToSet(x.batch.events) : x \in held} \cup {ToSet(e.batch.events)}
    OBVIOUS
  <2>3. QED
    BY <1>8, <1>10, <1>11, <2>1, <2>2
<1>12. CASE e.status # "accepted"
  <2>1. then = held
    BY <1>10, <1>12
  <2>2. QED
    BY <1>8, <1>10, <1>12, <2>1
<1>13. QED
  BY <1>11, <1>12

\* A step of the shared log, or one that it does not see.
SharedMove == [Shared!Next]_(Shared!vars)

LEMMA SharedOperators ==
  /\ \A s, t : Shared!IsPrefix(s, t) <=> IsPrefix(s, t)
  /\ \A s : Shared!ToSet(s) = ToSet(s)
BY DEF IsPrefix, Shared!IsPrefix, ToSet, Shared!ToSet

LEMMA Unseen ==
  ASSUME UNCHANGED <<accepted, local>>,
         \A d \in Devices : ConfirmedBy(d)' = ConfirmedBy(d)
  PROVE  SharedMove
<1>1. [d \in Devices |-> ConfirmedBy(d)]' = [d \in Devices |-> ConfirmedBy(d)]
  OBVIOUS
<1>2. QED
  BY <1>1 DEF SharedMove, Shared!vars

LEMMA QuietMove ==
  ASSUME UNCHANGED <<accepted, local, outbox>>
  PROVE  SharedMove
<1>1. \A d \in Devices : ConfirmedBy(d)' = ConfirmedBy(d)
  BY DEF ConfirmedBy, Entries, EntriesAt, IsEntry
<1>2. QED
  BY <1>1, Unseen

LEMMA ServedMove ==
  ASSUME Inv, SharedInv, UNCHANGED <<local, outbox>>, NEW b \in Written, Perform(Verdict(b))
  PROVE  SharedMove
<1>1. LogInv' /\ LogGrows
  BY LogOfVerdict, WrittenIsNamed, PerformVerdict DEF SharedInv, BatchOf
<1>2. CASE accepted' = accepted
  BY <1>2, QuietMove
<1>3. CASE accepted' # accepted
  <2>1. IsPrefix(accepted, accepted') /\ DOMAIN accepted' = 1..Len(accepted')
    BY <1>1, SequenceDomain DEF LogGrows
  <2>2. \A i, j \in DOMAIN accepted' : accepted'[i].id = accepted'[j].id => i = j
    BY <1>1, <2>1 DEF LogInv, Distinct
  <2>3. Shared!Once(accepted)'
    BY <2>2 DEF Shared!Once
  <2>4. \A d \in Devices : ConfirmedBy(d)' = ConfirmedBy(d)
    BY DEF ConfirmedBy, Entries, EntriesAt, IsEntry
  <2>5. [d \in Devices |-> ConfirmedBy(d)]' = [d \in Devices |-> ConfirmedBy(d)]
    BY <2>4
  <2>6. Shared!Grow
    BY <1>3, <2>1, <2>3, <2>5, SharedOperators DEF Shared!Grow
  <2>7. QED
    BY <2>6 DEF SharedMove, Shared!Next
<1>4. QED
  BY <1>2, <1>3

\* A replica that changes becomes a longer prefix of the log.
LEMMA LearnedMove ==
  ASSUME Inv, Inv', UNCHANGED <<accepted, outbox>>, Grows, NEW d \in Devices, NEW replica,
         local' = [local EXCEPT ![d] = replica]
  PROVE  SharedMove
<1>1. /\ DOMAIN local = Devices /\ IsSequence(local[d]) /\ IsPrefix(local[d], accepted)
      /\ IsSequence(local'[d]) /\ IsPrefix(local'[d], accepted)
      /\ IsSequence(accepted) /\ Len(local[d]) <= Len(local'[d])
  BY DEF Inv, LogOK, DevicesOK, DeviceAt, Grows
<1>2. IsPrefix(local[d], local'[d])
  <2>1. Len(local[d]) \in Nat /\ Len(local'[d]) \in Nat
    BY <1>1, SequenceDomain
  <2>2. \A i \in 1..Len(local[d]) : local[d][i] = accepted[i] /\ local'[d][i] = accepted[i]
    BY <1>1, <2>1, PrefixByIndex
  <2>3. QED
    BY <1>1, <2>2, PrefixByIndex
<1>3. local' = [local EXCEPT ![d] = local'[d]]
  BY <1>1
<1>4. \A c \in Devices : ConfirmedBy(c)' = ConfirmedBy(c)
  BY DEF ConfirmedBy, Entries, EntriesAt, IsEntry
<1>5. [c \in Devices |-> ConfirmedBy(c)]' = [c \in Devices |-> ConfirmedBy(c)]
  BY <1>4
<1>6. Shared!Learn(d)
  BY <1>1, <1>2, <1>3, <1>5, SharedOperators DEF Shared!Learn
<1>7. QED
  BY <1>6 DEF SharedMove, Shared!Next

\* An entry that is updated was pending, or is as it was.
LEMMA RecordMove ==
  ASSUME Inv, SharedInv, UNCHANGED <<accepted, local>>, NEW d \in Devices, NEW e,
         OfKnownBatch(e, d), Ranged(e, Len(local[d]), accepted), Update(d, e),
         CanUpdate(d, e) \/ \E i \in PendingAt(d) : outbox[d][i].batch = e.batch
  PROVE  SharedMove
<1>1. CASE outbox' = outbox
  BY <1>1, QuietMove
<1>2. CASE outbox' # outbox
  <2>1. /\ outbox' = [outbox EXCEPT ![d] = Append(@, e)]
        /\ \A i \in EntriesAt(d) : outbox[d][i] # e
    BY <1>2 DEF Update
  <2>2. PICK i \in EntriesAt(d) :
          outbox[d][i].batch.id = e.batch.id /\ outbox[d][i].status = "pending"
    BY <2>1 DEF CanUpdate, PendingAt
  <2>3. \A j \in EntriesAt(d) :
          outbox[d][j].batch.id = e.batch.id => outbox[d][j].status # "accepted"
    <3>. TAKE j \in EntriesAt(d)
    <3>. HAVE outbox[d][j].batch.id = e.batch.id
    <3>1. i = j
      BY <2>2, OneEntry
    <3>2. QED
      BY <2>2, <3>1
  <2>4. /\ ConfirmedBy(d)' = IF e.status = "accepted"
                             THEN ConfirmedBy(d) \cup {ToSet(e.batch.events)}
                             ELSE ConfirmedBy(d)
        /\ \A c \in Devices \ {d} : ConfirmedBy(c)' = ConfirmedBy(c)
    BY <2>1, <2>3, EntriesAfterRecord
  <2>5. CASE e.status # "accepted"
    BY <2>4, <2>5, Unseen
  <2>6. CASE e.status = "accepted"
    <3>. DEFINE batch == ToSet(e.batch.events)
                conf == [c \in Devices |-> ConfirmedBy(c)]
    <3>1. /\ e.from \in Nat \ {0} /\ e.to \in Nat /\ e.to <= Len(local[d])
          /\ SubSeq(accepted, e.from, e.to) = e.batch.events
      BY <2>6 DEF Ranged
    <3>2. IsSequence(local[d]) /\ IsSequence(accepted) /\ IsPrefix(local[d], accepted)
      BY DEF Inv, LogOK, DevicesOK, DeviceAt
    <3>3. SubSeq(local[d], e.from, e.to) = e.batch.events
      <4>. DEFINE replica == local[d]
                  from == e.from
                  to == e.to
      <4>1. /\ IsSequence(replica) /\ IsSequence(accepted) /\ IsPrefix(replica, accepted)
            /\ from \in Nat \ {0} /\ to \in Nat /\ to <= Len(replica)
        BY <3>1, <3>2
      <4>. HIDE DEF replica, from, to
      <4>2. SubSeq(replica, from, to) = SubSeq(accepted, from, to)
        BY <4>1, PrefixKeepsRange
      <4>3. QED
        BY <3>1, <4>2 DEF replica, from, to
    <3>4. batch # {}
      <4>1. e.batch \in Written
        BY DEF OfKnownBatch, Written
      <4>2. IsSequence(e.batch.events) /\ e.batch.events # <<>>
        BY <4>1, WrittenIsNamed DEF BatchOf, SharedInv
      <4>3. 1 \in DOMAIN e.batch.events
        BY <4>2, SequenceDomain, EmptyIsSequence, SequenceEqual
      <4>4. QED
        BY <4>3 DEF ToSet
    <3>5. batch \subseteq ToSet(local[d])
      <4>. DEFINE r == SubSeq(local[d], e.from, e.to)
      <4>1. /\ IsSequence(r) /\ Len(r) = IF e.from <= e.to THEN e.to - e.from + 1 ELSE 0
            /\ \A k \in 1..(e.to - e.from + 1) : r[k] = local[d][e.from + k - 1]
        BY <3>1, <3>2, SubSequence, SMTT(30)
      <4>. HIDE DEF r
      <4>2. DOMAIN r = 1..Len(r) /\ DOMAIN local[d] = 1..Len(local[d]) /\ Len(local[d]) \in Nat
        BY <3>2, <4>1, SequenceDomain
      <4>3. ASSUME NEW k \in DOMAIN r
            PROVE  r[k] = local[d][e.from + k - 1] /\ e.from + k - 1 \in DOMAIN local[d]
        <5>1. e.from \in Nat \ {0} /\ e.to \in Nat /\ e.to <= Len(local[d]) /\ Len(local[d]) \in Nat
          BY <3>1, <4>2
        <5>2. k \in 1..Len(r) /\ Len(r) = IF e.from <= e.to THEN e.to - e.from + 1 ELSE 0
          BY <4>1, <4>2, SMTT(30)
        <5>3. k \in 1..(e.to - e.from + 1) /\ e.from + k - 1 \in 1..Len(local[d])
          BY <5>1, <5>2, SMTT(30)
        <5>4. QED
          BY <4>1, <4>2, <5>3
      <4>4. r = e.batch.events
        BY <3>3 DEF r
      <4>5. QED
        BY <4>3, <4>4 DEF ToSet
    <3>6. conf' = [conf EXCEPT ![d] = @ \cup {batch}] /\ batch \in conf'[d]
      BY <2>4, <2>6
    <3>. HIDE DEF batch
    <3>7. Shared!Confirm(d)
      BY <3>4, <3>5, <3>6, SharedOperators DEF Shared!Confirm
    <3>8. QED
      BY <3>7 DEF SharedMove, Shared!Next
  <2>7. QED
    BY <2>5, <2>6
<1>3. QED
  BY <1>1, <1>2

LEMMA EngineMove ==
  ASSUME Inv, Inv', SharedInv, NEW s \in Sessions,
         Attempt(s) \/ PushUnheard(s) \/ PushLate(s) \/ PushStale(s) \/ Stop(s)
  PROVE  SharedMove
<1>. DEFINE d == DeviceOf[s]
            range == SubSeq(accepted, answer[s].from, answer[s].to)
<1>1. /\ EngineAt(s) /\ d \in Devices /\ HeldAt(s) /\ IsSequence(accepted)
      /\ IsSequence(local[d]) /\ Len(local[d]) \in Nat
  BY EngineFacts, LengthsAreNatural DEF SharedInv, HeldInv, LogOK, DeviceAt
<1>2. CASE UNCHANGED <<accepted, local, outbox>>
  BY <1>2, QuietMove
<1>3. CASE \/ Start(s) \/ Pull(s) \/ Reconcile(s) \/ SavePulled(s) \/ Preflight(s)
           \/ Screened(s) \/ Advance(s) \/ Finish(s) \/ Offline(s) \/ Stop(s) \/ PushLate(s)
  <2>1. UNCHANGED <<accepted, local, outbox>>
    BY <1>3 DEF Start, Pull, Reconcile, SavePulled, SaveCursor, Preflight, Screened, Advance,
       Finish, Offline, Stop, PushLate, device, core
  <2>2. QED
    BY <2>1, QuietMove
<1>4. CASE Push(s) \/ PushUnheard(s)
  <2>1. UNCHANGED <<local, outbox>>
    BY <1>4 DEF Push, PushUnheard, device
  <2>2. PICK b \in ToSend(s) : Perform(Verdict(b))
    BY <1>4 DEF Push, PushUnheard
  <2>3. b \in Written
    BY <1>1 DEF ToSend, Written, EngineAt
  <2>4. QED
    BY <2>1, <2>2, <2>3, ServedMove
<1>5. CASE Import(s)
  <2>1. UNCHANGED <<core, outbox>> /\ accepted' = accepted /\ pc[s] = "import"
    BY <1>5 DEF Import, core, At
  <2>2. CASE Importable(local[d], seen[s] + 1, pulled[s])
    <3>1. local' = [local EXCEPT ![d] = Imported(@, seen[s] + 1, pulled[s])]
      BY <1>5, <2>2 DEF Import
    <3>2. IsSequence(pulled[s])
      BY <1>1, <2>1 DEF EngineAt, FromLog
    <3>3. Grows
      BY <1>1, <2>1, <2>2, <3>1, <3>2, ReplicaGrows
    <3>4. QED
      BY <1>1, <2>1, <3>1, <3>3, LearnedMove
  <2>3. QED
    BY <1>2, <1>5, <2>1, <2>2 DEF Import
<1>6. CASE ImportPushed(s)
  <2>1. UNCHANGED <<core, outbox>> /\ accepted' = accepted /\ pc[s] = "answered"
    BY <1>6 DEF ImportPushed, core, At
  <2>2. CASE Importable(local[d], answer[s].from, range)
    <3>1. local' = [local EXCEPT ![d] = Imported(@, answer[s].from, range)]
      BY <1>6, <2>2 DEF ImportPushed
    <3>2. /\ answer[s].from \in Nat \ {0} /\ answer[s].to \in Nat
          /\ answer[s].to <= Len(accepted)
      BY <1>1, <2>1, <2>2 DEF EngineAt, Bounded, Importable
    <3>3. IsSequence(range)
      BY <1>1, <3>2, SubSequence
    <3>4. Grows
      <4>. HIDE DEF range
      <4>1. QED
        BY <1>1, <2>1, <2>2, <3>1, <3>3, ReplicaGrows
    <3>5. QED
      BY <1>1, <2>1, <3>1, <3>4, LearnedMove
  <2>3. QED
    BY <1>2, <1>6, <2>1, <2>2 DEF ImportPushed
<1>7. ASSUME Settle(s), ~(UNCHANGED outbox) PROVE SharedMove
  <2>1. PICK i \in writes[s] :
          /\ CanUpdate(d, Reconciled(s, outbox[d][i].batch))
          /\ Update(d, Reconciled(s, outbox[d][i].batch))
    BY <1>7 DEF Settle, SettleFirst
  <2>. DEFINE b == outbox[d][i].batch
              e == Reconciled(s, b)
  <2>2. /\ pc[s] = "settle" /\ i \in DOMAIN outbox[d] /\ WasPulled(s, b) /\ b \in Written
        /\ UNCHANGED <<accepted, local>>
    BY <1>1, <1>7 DEF Settle, SettleFirst, At, EngineAt, HeldAt, core, Written
  <2>3. OfKnownBatch(e, d)
    BY <2>2 DEF OfKnownBatch, Reconciled, Entry
  <2>4. Ranged(e, Len(local[d]), accepted)
    BY <2>2, ReconciledIsRanged
  <2>5. CanUpdate(d, e) /\ Update(d, e)
    BY <2>1
  <2>. HIDE DEF e
  <2>6. QED
    BY <1>1, <2>2, <2>3, <2>4, <2>5, RecordMove
<1>8. ASSUME Screen(s), ~(UNCHANGED outbox) PROVE SharedMove
  <2>1. PICK i \in writes[s] :
          /\ CanUpdate(d, Entry(outbox[d][i].batch, "rejected", "preflight"))
          /\ Update(d, Entry(outbox[d][i].batch, "rejected", "preflight"))
    BY <1>8 DEF Screen, SettleFirst
  <2>. DEFINE e == Entry(outbox[d][i].batch, "rejected", "preflight")
  <2>2. i \in DOMAIN outbox[d] /\ UNCHANGED <<accepted, local>>
    BY <1>1, <1>8 DEF Screen, SettleFirst, EngineAt, core
  <2>3. OfKnownBatch(e, d) /\ Ranged(e, Len(local[d]), accepted)
    BY <2>2 DEF OfKnownBatch, Entry, Ranged
  <2>4. CanUpdate(d, e) /\ Update(d, e)
    BY <2>1
  <2>. HIDE DEF e
  <2>5. QED
    BY <1>1, <2>2, <2>3, <2>4, RecordMove
<1>9. ASSUME RecordVerdict(s), ~(UNCHANGED outbox) PROVE SharedMove
  <2>1. /\ pc[s] = "record" /\ CanUpdate(d, answer[s]) /\ Update(d, answer[s])
        /\ UNCHANGED <<accepted, local>>
    BY <1>9 DEF RecordVerdict, At, core
  <2>2. OfKnownBatch(answer[s], d) /\ Ranged(answer[s], Len(local[d]), accepted)
    BY <1>1, <2>1 DEF OfKnownBatch, HeldAt
  <2>3. QED
    BY <1>1, <2>1, <2>2, RecordMove
<1>10. ASSUME PushStale(s) PROVE SharedMove
  <2>1. PICK batch \in ToSend(s) :
          /\ \E i \in PendingAt(d) : outbox[d][i].batch = batch
          /\ Update(d, Entry(batch, "pending", "stale"))
    BY <1>10 DEF PushStale
  <2>. DEFINE e == Entry(batch, "pending", "stale")
  <2>2. e.batch = batch /\ e.status = "pending" /\ Update(d, e)
    BY <2>1 DEF Entry
  <2>3. UNCHANGED <<accepted, local>>
    BY <1>10 DEF PushStale, core
  <2>. HIDE DEF e
  <2>4. \E i \in PendingAt(d) : outbox[d][i].batch = e.batch
    BY <2>1, <2>2
  <2>5. OfKnownBatch(e, d) /\ Ranged(e, Len(local[d]), accepted)
    BY <2>2, <2>4 DEF OfKnownBatch, PendingAt, EntriesAt, Ranged
  <2>6. QED
    BY <1>1, <2>2, <2>3, <2>4, <2>5, RecordMove
<1>11. CASE (Settle(s) \/ Screen(s) \/ RecordVerdict(s)) /\ UNCHANGED outbox
  <2>1. UNCHANGED <<accepted, local>>
    BY <1>11 DEF Settle, Screen, SettleFirst, RecordVerdict, core
  <2>2. QED
    BY <1>2, <1>11, <2>1
<1>12. QED
  BY <1>3, <1>4, <1>5, <1>6, <1>7, <1>8, <1>9, <1>10, <1>11 DEF Attempt

LEMMA LocalMove ==
  ASSUME Inv, FunctionsOK, SharedInv, NEW d \in Devices, LocalAppend(d)
  PROVE  SharedMove
<1>. DEFINE e == Entry(NextBatch(d), "pending", "written")
<1>1. /\ outbox' = [outbox EXCEPT ![d] = Append(@, e)]
      /\ UNCHANGED <<accepted, local>>
  BY DEF LocalAppend, core
<1>2. e.batch = NextBatch(d) /\ e.status = "pending"
  BY DEF Entry
<1>3. \A i \in EntriesAt(d) : outbox[d][i].batch.id # e.batch.id
  <2>. TAKE i \in EntriesAt(d)
  <2>1. outbox[d][i].batch \in Written
    BY DEF Written, EntriesAt
  <2>2. QED
    BY <1>2, <2>1, NextBatchIsNew
<1>. HIDE DEF e
<1>4. \A c \in Devices : ConfirmedBy(c)' = ConfirmedBy(c)
  BY <1>1, <1>2, <1>3, EntriesAfterRecord
<1>5. QED
  BY <1>1, <1>4, Unseen

(***************************************************************************)
(* The devices implement the shared log (SharedLog): one log of records    *)
(* that occur once, growing replicas that are prefixes of it, and          *)
(* acceptances that are never taken back and never run ahead of the        *)
(* replica, for any number of devices, engines, crashes and lost answers.  *)
(***************************************************************************)
THEOREM Refinement == Spec => ImplementsSharedLog
<1>1. Init => Shared!Init
  <2>. SUFFICES ASSUME Init PROVE Shared!Init
    OBVIOUS
  <2>1. Inv /\ SharedInv
    BY InvInitially, SharedInitially
  <2>2. DOMAIN accepted = 1..Len(accepted)
    BY <2>1, SequenceDomain DEF Inv, LogOK
  <2>3. Shared!Once(accepted)
    BY <2>1, <2>2 DEF SharedInv, LogInv, Distinct, Shared!Once
  <2>4. \A d \in Devices : Shared!IsPrefix(local[d], accepted)
    BY <2>1, SharedOperators DEF Inv, DevicesOK, DeviceAt
  <2>5. \A d \in Devices : ConfirmedBy(d) = {}
    <3>. TAKE d \in Devices
    <3>1. DOMAIN outbox[d] = {}
      BY DEF Init
    <3>2. QED
      BY <3>1 DEF ConfirmedBy, Entries, EntriesAt
  <2>6. QED
    BY <2>3, <2>4, <2>5 DEF Shared!Init
<1>2. Inv /\ FunctionsOK /\ SharedInv /\ Inv' /\ [Next]_vars => [Shared!Next]_(Shared!vars)
  <2>. SUFFICES ASSUME Inv, FunctionsOK, SharedInv, Inv', [Next]_vars
                PROVE  SharedMove
    BY DEF SharedMove
  <2>1. ASSUME NEW s \in Sessions,
               Attempt(s) \/ PushUnheard(s) \/ PushLate(s) \/ PushStale(s) \/ Stop(s)
        PROVE  SharedMove
    BY <2>1, EngineMove
  <2>2. ASSUME NEW d \in Devices, LocalAppend(d) PROVE SharedMove
    BY <2>2, LocalMove
  <2>3. CASE DeliverLate
    <3>1. PICK b \in late : Perform(Verdict(b))
      BY <2>3 DEF DeliverLate
    <3>2. b \in Written /\ UNCHANGED <<local, outbox>>
      BY <2>3 DEF DeliverLate, device, SharedInv, NamesInv
    <3>3. QED
      BY <3>1, <3>2, ServedMove
  <2>4. CASE Service \/ UNCHANGED vars
    <3>1. UNCHANGED <<accepted, local, outbox>>
      BY <2>4 DEF Service, Restart, Crash, Tick, Facts, vars, core, device, Inv, LogOK
    <3>2. QED
      BY <3>1, QuietMove
  <2>5. QED
    BY <2>1, <2>2, <2>3, <2>4 DEF Next
<1>3. QED
  BY <1>1, <1>2, Invariance, SharedInvariance, PTL DEF Spec, ImplementsSharedLog, Shared!Spec
-----------------------------------------------------------------------------
(***************************************************************************)
(* Nothing is hidden behind a cursor, when each device has one engine.     *)
(*                                                                         *)
(* The argument: a cursor is only ever moved to a position that no batch   *)
(* is divided by (an engine reads to the end of the log, or to the end of  *)
(* the range of its verdict), and before it moves every pending batch that *)
(* lies before the new position has its record (reconcilePulled,           *)
(* RecordVerdict).  That nobody else imports in between is used: with two  *)
(* engines on a device, the verdict that one of them records can lie       *)
(* behind a batch that the other has imported and not settled.             *)
(***************************************************************************)
\* One engine on each device: no two processes of a device sync at once.
OneEnginePerDevice == \A s, t \in Sessions : DeviceOf[s] = DeviceOf[t] => s = t

\* The first n events of a log hold none of the batch, or all of it.
Clear(b, n, log) == \A i \in 1..Len(log) : i <= n => ~IsOf(log[i], b)

Holds(b, n, log) ==
  \E m \in 0..n : /\ m + Len(b.events) <= n
                  /\ \A k \in 1..Len(b.events) : log[m + k] = b.events[k]

Boundary(n, log, batches) == \A b \in batches : Clear(b, n, log) \/ Holds(b, n, log)

\* A position no batch is divided by, and no pending batch is before.
Settled(n, log, batches, pending) ==
  Boundary(n, log, batches) /\ \A b \in pending : Clear(b, n, log)

\* The batches the device has no verdict of.
Pending(d) == {outbox[d][k].batch : k \in PendingAt(d)}

\* Where what the engine pulled ends.
ReadTo(s) == seen[s] + Len(pulled[s])

\* The verdict that moves the cursor is in the outbox.
Recorded(s) ==
  /\ answer[s].status = "accepted" /\ answer[s].to > seen[s]
  /\ answer[s].batch \in Written /\ answer[s].batch \notin Pending(DeviceOf[s])
  /\ Ranged(answer[s], Len(accepted), accepted)

\* What an engine relies on before it moves the cursor.
SettledAt(s) ==
  LET d == DeviceOf[s]
      end == Len(local[d])
  IN /\ Settled(seen[s], accepted, Written, Pending(d))
     /\ pc[s] \in {"import", "reconcile", "settle"} =>
          Boundary(ReadTo(s), accepted, Written) /\ end <= ReadTo(s)
     /\ pc[s] = "settle" =>
          \A k \in PendingAt(d) \ writes[s] : Clear(outbox[d][k].batch, ReadTo(s), accepted)
     /\ pc[s] \in {"preflight", "screen", "push", "answered"} => end <= seen[s]
     /\ pc[s] = "answered" => answer[s].status = "accepted"
     /\ pc[s] = "record" => answer[s].status # "pending"
     /\ pc[s] \in {"record", "advance"} =>
          /\ end <= seen[s] \/ end <= answer[s].to
          /\ answer[s].status = "accepted" => answer[s].from <= seen[s] + 1
     /\ pc[s] = "advance" => Recorded(s)

SettledInv ==
  /\ \A d \in Devices : Settled(cursor[d], accepted, Written, Pending(d))
  /\ \A s \in Sessions : SettledAt(s)

\* What a step does to the log, to the batches, and to the pending records.
StepOK ==
  /\ LogGrows /\ Written \subseteq Written'
  /\ \A b \in Written' : b \in Written \/ Absent(b, accepted')
  /\ \A d \in Devices : \A k \in PendingAt(d)' :
       \/ k \in PendingAt(d) /\ outbox'[d][k].batch = outbox[d][k].batch
       \/ Absent(outbox'[d][k].batch, accepted')
-----------------------------------------------------------------------------
(***************************************************************************)
(* Positions of the log, when it grows.                                    *)
(***************************************************************************)
LEMMA ClearStays ==
  ASSUME NEW log, NEW longer, IsSequence(log), IsSequence(longer), IsPrefix(log, longer),
         NEW n \in Nat, n <= Len(log), NEW b
  PROVE  /\ Clear(b, n, log) => Clear(b, n, longer)
         /\ Holds(b, n, log) /\ IsSequence(b.events) => Holds(b, n, longer)
         /\ Absent(b, longer) => Clear(b, n, longer)
<1>1. /\ Len(log) \in Nat /\ Len(longer) \in Nat /\ Len(log) <= Len(longer)
      /\ \A i \in 1..Len(log) : log[i] = longer[i]
  BY SequenceDomain, PrefixByIndex
<1>2. Clear(b, n, log) => Clear(b, n, longer)
  <2>. SUFFICES ASSUME Clear(b, n, log), NEW i \in 1..Len(longer), i <= n
                PROVE  ~IsOf(longer[i], b)
    BY DEF Clear
  <2>1. i \in 1..Len(log)
    BY <1>1
  <2>2. QED
    BY <1>1, <2>1 DEF Clear
<1>3. Holds(b, n, log) /\ IsSequence(b.events) => Holds(b, n, longer)
  <2>. SUFFICES ASSUME Holds(b, n, log), IsSequence(b.events) PROVE Holds(b, n, longer)
    OBVIOUS
  <2>1. PICK m \in 0..n : /\ m + Len(b.events) <= n
                          /\ \A k \in 1..Len(b.events) : log[m + k] = b.events[k]
    BY DEF Holds
  <2>2. Len(b.events) \in Nat
    BY SequenceDomain
  <2>3. \A k \in 1..Len(b.events) : m + k \in 1..Len(log)
    BY <1>1, <2>1, <2>2
  <2>4. \A k \in 1..Len(b.events) : longer[m + k] = b.events[k]
    BY <1>1, <2>1, <2>3
  <2>5. QED
    BY <2>1, <2>4 DEF Holds
<1>4. Absent(b, longer) => Clear(b, n, longer)
  BY DEF Absent, Clear
<1>5. QED
  BY <1>2, <1>3, <1>4

\* What has the batch at its end, or not at all, holds no half of it.
LEMMA AtEnd ==
  ASSUME NEW log, IsSequence(log), NEW b, IsSequence(b.events), AtOnePlace(b, log)
  PROVE  Clear(b, Len(log), log) \/ Holds(b, Len(log), log)
<1>1. Len(log) \in Nat /\ Len(b.events) \in Nat
  BY SequenceDomain
<1>2. CASE Absent(b, log)
  BY <1>2 DEF Absent, Clear
<1>3. CASE \E n \in Nat : StoredFrom(b, n, log)
  <2>1. PICK n \in Nat : StoredFrom(b, n, log)
    BY <1>3
  <2>2. n + Len(b.events) <= Len(log) /\ n \in 0..Len(log)
    BY <1>1, <2>1 DEF StoredFrom
  <2>3. QED
    BY <2>1, <2>2 DEF StoredFrom, Holds
<1>4. QED
  BY <1>2, <1>3 DEF AtOnePlace

\* A batch of an outbox is a sequence of at least one event.
LEMMA WrittenIsBatch ==
  ASSUME NamesInv, NEW b \in Written
  PROVE  IsSequence(b.events) /\ Len(b.events) \in Nat \ {0}
<1>1. IsSequence(b.events) /\ b.events # <<>>
  BY WrittenIsNamed DEF BatchOf
<1>2. Len(b.events) \in Nat /\ Len(b.events) # 0
  BY <1>1, SequenceDomain, EmptyIsSequence, SequenceEqual
<1>3. QED
  BY <1>1, <1>2

LEMMA BoundaryStays ==
  ASSUME Inv, NamesInv, StepOK, NEW n \in Nat, n <= Len(accepted),
         Boundary(n, accepted, Written)
  PROVE  Boundary(n, accepted', Written')
<1>1. IsSequence(accepted) /\ IsSequence(accepted') /\ IsPrefix(accepted, accepted')
  BY DEF Inv, LogOK, StepOK, LogGrows
<1>. SUFFICES ASSUME NEW b \in Written' PROVE Clear(b, n, accepted') \/ Holds(b, n, accepted')
  BY DEF Boundary
<1>2. CASE b \in Written
  <2>1. Clear(b, n, accepted) \/ Holds(b, n, accepted)
    BY <1>2 DEF Boundary
  <2>2. QED
    BY <1>1, <1>2, <2>1, ClearStays, WrittenIsBatch
<1>3. CASE Absent(b, accepted')
  BY <1>1, <1>3, ClearStays
<1>4. QED
  BY <1>2, <1>3 DEF StepOK

LEMMA SettledStays ==
  ASSUME Inv, NamesInv, StepOK, NEW n \in Nat, n <= Len(accepted), NEW d \in Devices,
         Settled(n, accepted, Written, Pending(d))
  PROVE  Settled(n, accepted', Written', Pending(d)')
<1>1. IsSequence(accepted) /\ IsSequence(accepted') /\ IsPrefix(accepted, accepted')
  BY DEF Inv, LogOK, StepOK, LogGrows
<1>2. Boundary(n, accepted', Written')
  BY BoundaryStays DEF Settled
<1>3. ASSUME NEW k \in PendingAt(d)' PROVE Clear(outbox'[d][k].batch, n, accepted')
  <2>1. CASE k \in PendingAt(d) /\ outbox'[d][k].batch = outbox[d][k].batch
    <3>1. outbox[d][k].batch \in Pending(d)
      BY <2>1 DEF Pending
    <3>2. Clear(outbox[d][k].batch, n, accepted)
      BY <3>1 DEF Settled
    <3>3. QED
      BY <1>1, <2>1, <3>2, ClearStays
  <2>2. CASE Absent(outbox'[d][k].batch, accepted')
    BY <1>1, <2>2, ClearStays
  <2>3. QED
    BY <2>1, <2>2 DEF StepOK
<1>4. QED
  BY <1>2, <1>3 DEF Settled, Pending

\* The range of an accepted answer is its batch, up to the last event.
LEMMA RangeIsBatch ==
  ASSUME NEW log, IsSequence(log), NEW e, e.status = "accepted", Ranged(e, Len(log), log),
         IsSequence(e.batch.events), Len(e.batch.events) \in Nat \ {0}
  PROVE  /\ e.to = e.from + Len(e.batch.events) - 1
         /\ \A i \in e.from..e.to : \E k \in 1..Len(e.batch.events) : log[i] = e.batch.events[k]
         /\ Holds(e.batch, e.to, log) /\ ~Absent(e.batch, log)
<1>. DEFINE from == e.from
            to == e.to
            size == Len(e.batch.events)
            range == SubSeq(log, from, to)
<1>1. from \in Nat \ {0} /\ to \in Nat /\ to <= Len(log) /\ range = e.batch.events
  BY DEF Ranged
<1>2. Len(log) \in Nat /\ size \in Nat \ {0}
  BY SequenceDomain
<1>. HIDE DEF from, to
<1>3. /\ Len(range) = IF from <= to THEN to - from + 1 ELSE 0
      /\ \A k \in 1..(to - from + 1) : range[k] = log[from + k - 1]
  BY <1>1, SubSequence
<1>. HIDE DEF range
<1>4. size = IF from <= to THEN to - from + 1 ELSE 0
  BY <1>1, <1>3
<1>5. from <= to /\ size = to - from + 1
  BY <1>2, <1>4
<1>6. \A k \in 1..size : log[from + k - 1] = e.batch.events[k]
  BY <1>1, <1>3, <1>5
<1>. HIDE DEF size
<1>7. to = from + size - 1
  BY <1>1, <1>2, <1>5
<1>8. \A i \in from..to : \E k \in 1..size : log[i] = e.batch.events[k]
  <2>. TAKE i \in from..to
  <2>1. i - from + 1 \in 1..size /\ from + (i - from + 1) - 1 = i
    BY <1>1, <1>2, <1>7
  <2>2. QED
    BY <1>6, <2>1
<1>9. Holds(e.batch, to, log)
  <2>1. from - 1 \in 0..to /\ (from - 1) + size <= to
    BY <1>1, <1>2, <1>7
  <2>2. \A k \in 1..size : (from - 1) + k = from + k - 1
    BY <1>1, <1>2
  <2>3. \A k \in 1..size : log[(from - 1) + k] = e.batch.events[k]
    BY <1>6, <2>2
  <2>4. QED
    BY <2>1, <2>3 DEF Holds, size
<1>10. ~Absent(e.batch, log)
  <2>1. from \in 1..Len(log) /\ from \in from..to
    BY <1>1, <1>2, <1>5
  <2>2. IsOf(log[from], e.batch)
    BY <1>8, <2>1 DEF IsOf, size
  <2>3. QED
    BY <2>1, <2>2 DEF Absent
<1>11. QED
  BY <1>7, <1>8, <1>9, <1>10 DEF from, to, size

\* How far an engine has seen and read.
LEMMA EngineLimits ==
  ASSUME Inv, SharedInv, NEW s \in Sessions
  PROVE  /\ seen[s] \in Nat /\ seen[s] <= Len(local[DeviceOf[s]])
         /\ seen[s] <= Len(accepted) /\ DeviceOf[s] \in Devices
         /\ Len(local[DeviceOf[s]]) \in Nat /\ Len(accepted) \in Nat
         /\ Len(local[DeviceOf[s]]) <= Len(accepted)
         /\ pc[s] \in {"import", "reconcile", "settle"} =>
              /\ FromLog(pulled[s], seen[s]) /\ Len(pulled[s]) \in Nat
              /\ ReadTo(s) \in Nat /\ ReadTo(s) <= Len(accepted)
<1>1. EngineAt(s) /\ HeldAt(s) /\ DeviceOf[s] \in Devices
  BY EngineFacts DEF SharedInv, HeldInv
<1>2. /\ Len(local[DeviceOf[s]]) \in Nat /\ Len(accepted) \in Nat
      /\ Len(local[DeviceOf[s]]) <= Len(accepted)
  BY <1>1, LengthsAreNatural
<1>3. seen[s] \in Nat /\ seen[s] <= Len(local[DeviceOf[s]]) /\ seen[s] <= Len(accepted)
  BY <1>1, <1>2 DEF EngineAt
<1>4. ASSUME pc[s] \in {"import", "reconcile", "settle"}
      PROVE  /\ FromLog(pulled[s], seen[s]) /\ Len(pulled[s]) \in Nat
             /\ ReadTo(s) \in Nat /\ ReadTo(s) <= Len(accepted)
  <2>1. FromLog(pulled[s], seen[s])
    BY <1>1, <1>4 DEF HeldAt
  <2>2. Len(pulled[s]) \in Nat
    BY <2>1, SequenceDomain DEF FromLog
  <2>3. QED
    BY <1>2, <1>3, <2>1, <2>2 DEF FromLog, ReadTo
<1>5. QED
  BY <1>1, <1>2, <1>3, <1>4

LEMMA RecordedStays ==
  ASSUME Inv, SharedInv, StepOK, NEW s \in Sessions, Recorded(s), Rests(s)
  PROVE  Recorded(s)'
<1>. DEFINE d == DeviceOf[s]
            b == answer[s].batch
<1>1. IsSequence(accepted) /\ IsSequence(accepted') /\ IsPrefix(accepted, accepted')
  BY DEF Inv, LogOK, StepOK, LogGrows
<1>2. Len(accepted) \in Nat /\ Len(accepted') \in Nat /\ Len(accepted) <= Len(accepted')
  BY <1>1, SequenceDomain, PrefixByIndex
<1>3. Ranged(answer[s], Len(accepted'), accepted')
  BY <1>1, <1>2, RangedStays DEF Recorded
<1>4. b \in Written'
  BY DEF Recorded, StepOK
<1>5. ~Absent(b, accepted')
  <2>1. ~Absent(b, accepted)
    BY <1>1, RangeIsBatch, WrittenIsBatch DEF Recorded, SharedInv
  <2>2. PICK i \in 1..Len(accepted) : IsOf(accepted[i], b)
    BY <2>1 DEF Absent
  <2>3. i \in 1..Len(accepted') /\ accepted'[i] = accepted[i]
    BY <1>1, <1>2, PrefixByIndex
  <2>4. QED
    BY <2>2, <2>3 DEF Absent
<1>6. b \notin Pending(d)'
  <2>1. SUFFICES ASSUME NEW k \in PendingAt(d)', b = outbox'[d][k].batch PROVE FALSE
    BY DEF Pending
  <2>2. d \in Devices
    BY EngineLimits
  <2>3. k \in PendingAt(d) /\ outbox[d][k].batch = b
    BY <1>5, <2>1, <2>2 DEF StepOK
  <2>4. QED
    BY <2>3 DEF Recorded, Pending
<1>7. answer'[s] = answer[s] /\ seen'[s] = seen[s]
  BY DEF Rests
<1>8. QED
  BY <1>3, <1>4, <1>6, <1>7 DEF Recorded

\* An engine that rests on a device whose replica stays.
LEMMA RestsSettled ==
  ASSUME Inv, SharedInv, StepOK, NEW s \in Sessions, SettledAt(s), Rests(s),
         local'[DeviceOf[s]] = local[DeviceOf[s]]
  PROVE  SettledAt(s)'
<1>. DEFINE d == DeviceOf[s]
<1>1. /\ seen[s] \in Nat /\ seen[s] <= Len(accepted) /\ d \in Devices
      /\ pc[s] \in {"import", "reconcile", "settle"} =>
           ReadTo(s) \in Nat /\ ReadTo(s) <= Len(accepted)
  BY EngineLimits
<1>2. IsSequence(accepted) /\ IsSequence(accepted') /\ IsPrefix(accepted, accepted')
  BY DEF Inv, LogOK, StepOK, LogGrows
<1>3. /\ pc'[s] = pc[s] /\ seen'[s] = seen[s] /\ pulled'[s] = pulled[s]
      /\ writes'[s] = writes[s] /\ answer'[s] = answer[s] /\ ReadTo(s)' = ReadTo(s)
  BY DEF Rests, ReadTo
<1>4. Settled(seen[s], accepted', Written', Pending(d)')
  BY <1>1, SettledStays DEF SettledAt, SharedInv
<1>5. ASSUME pc[s] \in {"import", "reconcile", "settle"}
      PROVE  Boundary(ReadTo(s), accepted', Written')
  BY <1>1, <1>5, BoundaryStays DEF SettledAt, SharedInv
<1>6. ASSUME pc[s] = "settle", NEW k \in PendingAt(d)', k \notin writes[s]
      PROVE  Clear(outbox'[d][k].batch, ReadTo(s), accepted')
  <2>1. ReadTo(s) \in Nat /\ ReadTo(s) <= Len(accepted)
    BY <1>1, <1>6
  <2>2. CASE k \in PendingAt(d) /\ outbox'[d][k].batch = outbox[d][k].batch
    <3>1. Clear(outbox[d][k].batch, ReadTo(s), accepted)
      BY <1>6, <2>2 DEF SettledAt
    <3>2. QED
      BY <1>2, <2>1, <2>2, <3>1, ClearStays
  <2>3. CASE Absent(outbox'[d][k].batch, accepted')
    BY <1>2, <2>1, <2>3, ClearStays
  <2>4. QED
    BY <1>1, <2>2, <2>3 DEF StepOK
<1>7. pc[s] = "advance" => Recorded(s)'
  BY RecordedStays DEF SettledAt
<1>8. QED
  BY <1>3, <1>4, <1>5, <1>6, <1>7 DEF SettledAt

\* An engine that moves on its device, or none.
LEMMA CursorsSettled ==
  ASSUME Inv, SharedInv, StepOK, SettledInv, NEW d \in Devices, cursor'[d] = cursor[d]
  PROVE  Settled(cursor[d], accepted, Written, Pending(d))'
<1>1. cursor[d] \in Nat /\ cursor[d] <= Len(accepted)
  <2>1. cursor[d] \in Nat /\ cursor[d] <= Len(local[d])
    BY DEF Inv, DevicesOK, DeviceAt
  <2>2. QED
    BY <2>1, LengthsAreNatural
<1>2. Settled(cursor[d], accepted, Written, Pending(d))
  BY DEF SettledInv
<1>3. Settled(cursor[d], accepted', Written', Pending(d)')
  BY <1>1, <1>2, SettledStays DEF SharedInv
<1>4. QED
  BY <1>3

LEMMA OneMoves ==
  ASSUME OneEnginePerDevice, Inv, SharedInv, StepOK, SettledInv, NEW s \in Sessions, Others(s),
         SettledAt(s)', \A d \in Devices \ {DeviceOf[s]} : local'[d] = local[d],
         \A d \in Devices : \/ cursor'[d] = cursor[d]
                            \/ Settled(cursor[d], accepted, Written, Pending(d))'
  PROVE  SettledInv'
<1>1. \A d \in Devices : Settled(cursor[d], accepted, Written, Pending(d))'
  BY CursorsSettled
<1>2. ASSUME NEW t \in Sessions \ {s} PROVE SettledAt(t)'
  <2>1. DeviceOf[t] \in Devices \ {DeviceOf[s]}
    BY DeviceOfEngine DEF OneEnginePerDevice
  <2>2. QED
    BY <2>1, RestsSettled DEF SettledInv, Others
<1>3. QED
  BY <1>1, <1>2 DEF SettledInv

LEMMA NoneMoves ==
  ASSUME Inv, SharedInv, StepOK, SettledInv, UNCHANGED <<local, cursor, engine>>
  PROVE  SettledInv'
<1>1. \A d \in Devices : Settled(cursor[d], accepted, Written, Pending(d))'
  BY CursorsSettled
<1>2. \A s \in Sessions : Rests(s)
  BY DEF engine, memory, Rests
<1>3. \A s \in Sessions : SettledAt(s)'
  BY <1>2, RestsSettled DEF SettledInv
<1>4. QED
  BY <1>1, <1>3 DEF SettledInv
-----------------------------------------------------------------------------
(***************************************************************************)
(* The outboxes.                                                           *)
(***************************************************************************)
\* What is pending after record e was written: it, and what was of other batches.
StillPending(d, e) ==
  \A c \in Devices : \A k \in PendingAt(c)' :
    \/ /\ k \in PendingAt(c) /\ outbox'[c][k] = outbox[c][k]
       /\ c = d /\ e.status # "pending" => outbox[c][k].batch.id # e.batch.id
    \/ c = d /\ outbox'[c][k] = e /\ e.status = "pending"

LEMMA PendingAppended ==
  ASSUME Inv, NEW d \in Devices, NEW e, outbox' = [outbox EXCEPT ![d] = Append(@, e)]
  PROVE  StillPending(d, e)
<1>. DEFINE n == Len(outbox[d])
<1>1. DOMAIN outbox = Devices /\ IsSequence(outbox[d])
  BY DEF Inv, DevicesOK, DeviceAt
<1>2. outbox'[d] = Append(outbox[d], e) /\ \A c \in Devices \ {d} : outbox'[c] = outbox[c]
  BY <1>1
<1>3. /\ n \in Nat /\ DOMAIN outbox[d] = 1..n /\ DOMAIN outbox'[d] = 1..(n + 1)
      /\ \A i \in 1..n : outbox'[d][i] = outbox[d][i]
      /\ outbox'[d][n + 1] = e
  BY <1>1, <1>2, AppendSequence, SequenceDomain
<1>. HIDE DEF n
<1>. SUFFICES ASSUME NEW c \in Devices, NEW k \in PendingAt(c)'
              PROVE  \/ /\ k \in PendingAt(c) /\ outbox'[c][k] = outbox[c][k]
                        /\ c = d /\ e.status # "pending" => outbox[c][k].batch.id # e.batch.id
                     \/ c = d /\ outbox'[c][k] = e /\ e.status = "pending"
  BY DEF StillPending
<1>4. CASE c # d
  BY <1>2, <1>4 DEF PendingAt, EntriesAt, IsEntry
<1>5. CASE c = d
  <2>1. /\ k \in 1..(n + 1) /\ outbox'[d][k].status = "pending"
        /\ \A j \in 1..(n + 1) : j > k => outbox'[d][j].batch.id # outbox'[d][k].batch.id
    BY <1>3, <1>5 DEF PendingAt, EntriesAt, IsEntry
  <2>2. CASE k = n + 1
    BY <1>3, <1>5, <2>1, <2>2
  <2>3. CASE k # n + 1
    <3>1. k \in 1..n /\ n + 1 \in 1..(n + 1) /\ n + 1 > k /\ outbox'[d][k] = outbox[d][k]
      BY <1>3, <2>1, <2>3
    <3>2. outbox[d][k].batch.id # e.batch.id
      BY <1>3, <2>1, <3>1
    <3>3. \A j \in 1..n : j \in 1..(n + 1) /\ outbox'[d][j] = outbox[d][j]
      BY <1>3
    <3>4. k \in PendingAt(d)
      BY <1>3, <2>1, <3>1, <3>3 DEF PendingAt, EntriesAt, IsEntry
    <3>5. QED
      BY <1>5, <3>1, <3>2, <3>4
  <2>4. QED
    BY <2>2, <2>3
<1>6. QED
  BY <1>4, <1>5

LEMMA PendingUpdated ==
  ASSUME Inv, NEW d \in Devices, NEW e, Update(d, e)
  PROVE  StillPending(d, e)
<1>1. CASE \E i \in EntriesAt(d) : outbox[d][i] = e
  <2>1. outbox' = outbox
    BY <1>1 DEF Update
  <2>2. PICK i \in EntriesAt(d) : outbox[d][i] = e
    BY <1>1
  <2>3. \A c \in Devices : PendingAt(c)' = PendingAt(c)
    BY <2>1 DEF PendingAt, EntriesAt, IsEntry
  <2>4. ASSUME NEW k \in PendingAt(d), outbox[d][k].batch.id = e.batch.id
        PROVE  e.status = "pending"
    <3>1. k \in EntriesAt(d) /\ outbox[d][k].status = "pending"
      BY DEF PendingAt
    <3>2. k = i
      BY <2>2, <2>4, <3>1, OneEntry
    <3>3. QED
      BY <2>2, <3>1, <3>2
  <2>5. QED
    BY <2>1, <2>3, <2>4 DEF StillPending
<1>2. CASE outbox' = [outbox EXCEPT ![d] = Append(@, e)]
  BY <1>2, PendingAppended
<1>3. QED
  BY <1>1, <1>2 DEF Update

LEMMA QuietIsOK ==
  ASSUME Inv, UNCHANGED outbox, LogGrows
  PROVE  /\ StepOK /\ Written' = Written
         /\ \A d \in Devices : PendingAt(d)' = PendingAt(d) /\ Pending(d)' = Pending(d)
  BY DEF StepOK, Written, PendingAt, EntriesAt, IsEntry, Pending

LEMMA RecordIsOK ==
  ASSUME Inv, SharedInv, UNCHANGED <<core, written, late>>, NEW d \in Devices, NEW e,
         OfKnownBatch(e, d), Update(d, e), e.status # "pending" \/ Absent(e.batch, accepted)
  PROVE  StepOK /\ Written' = Written /\ RecordsStay
<1>1. LogGrows /\ accepted' = accepted
  BY LogUnchanged
<1>2. late' \subseteq Written /\ NamesInv
  BY DEF SharedInv, NamesInv
<1>3. outbox' = outbox \/ outbox' = [outbox EXCEPT ![d] = Append(@, e)]
  BY DEF Update
<1>4. RecordsStay /\ Written' = Written
  BY <1>2, <1>3, KnownRecord
<1>5. \A c \in Devices : \A k \in PendingAt(c)' :
        \/ k \in PendingAt(c) /\ outbox'[c][k].batch = outbox[c][k].batch
        \/ Absent(outbox'[c][k].batch, accepted')
  BY <1>1, PendingUpdated DEF StillPending
<1>6. QED
  BY <1>1, <1>4, <1>5 DEF StepOK
-----------------------------------------------------------------------------
(***************************************************************************)
(* The steps of an engine that write no record.                            *)
(***************************************************************************)
LEMMA BareEngine ==
  ASSUME NEW s \in Sessions, pc'[s] \in {"idle", "pull"},
         Settled(seen[s], accepted, Written, Pending(DeviceOf[s]))'
  PROVE  SettledAt(s)'
<1>1. /\ pc'[s] # "import" /\ pc'[s] # "reconcile" /\ pc'[s] # "settle" /\ pc'[s] # "preflight"
      /\ pc'[s] # "screen" /\ pc'[s] # "push" /\ pc'[s] # "answered" /\ pc'[s] # "record"
      /\ pc'[s] # "advance"
  OBVIOUS
<1>2. QED
  BY <1>1 DEF SettledAt

\* Where an engine was, with what became of the log and the outboxes.
LEMMA SeenSettled ==
  ASSUME Inv, SharedInv, StepOK, SettledInv, NEW s \in Sessions, seen'[s] = seen[s]
  PROVE  Settled(seen[s], accepted, Written, Pending(DeviceOf[s]))'
<1>1. Settled(seen[s], accepted, Written, Pending(DeviceOf[s]))
  BY DEF SettledInv, SettledAt
<1>2. seen[s] \in Nat /\ seen[s] <= Len(accepted) /\ DeviceOf[s] \in Devices
  BY EngineLimits
<1>3. Settled(seen[s], accepted', Written', Pending(DeviceOf[s])')
  BY <1>1, <1>2, SettledStays DEF SharedInv
<1>4. QED
  BY <1>3

\* An attempt that ends.
LEMMA EndSettled ==
  ASSUME OneEnginePerDevice, Inv, SharedInv, StepOK, SettledInv, NEW s \in Sessions, Others(s),
         NEW heard, Leave(s, heard), UNCHANGED <<seen, local, cursor>>
  PROVE  SettledInv'
<1>1. pc'[s] = "idle"
  BY EngineFacts DEF EnginesTyped, Leave, Goto
<1>2. SettledAt(s)'
  BY <1>1, SeenSettled, BareEngine
<1>3. QED
  BY <1>2, OneMoves

\* A step that leaves the log and the outboxes alone.
Quietly == Inv' /\ SharedInv' /\ UNCHANGED <<core, outbox>>

LEMMA QuietStepIsOK ==
  ASSUME Inv, Quietly
  PROVE  /\ StepOK /\ Written' = Written /\ accepted' = accepted
         /\ \A d \in Devices : PendingAt(d)' = PendingAt(d) /\ Pending(d)' = Pending(d)
<1>1. LogGrows /\ accepted' = accepted
  BY LogUnchanged DEF Quietly
<1>2. QED
  BY <1>1, QuietIsOK DEF Quietly

LEMMA StartSettled ==
  ASSUME OneEnginePerDevice, Inv, SharedInv, SettledInv, Quietly,
         NEW s \in Sessions, Others(s), Start(s)
  PROVE  SettledInv'
<1>. DEFINE d == DeviceOf[s]
<1>1. EnginesTyped /\ d \in Devices
  BY EngineFacts
<1>2. /\ pc'[s] = "pull" /\ UNCHANGED <<local, cursor>>
      /\ seen'[s] = seen[s] \/ seen'[s] = cursor[d]
  BY <1>1 DEF Start, EnginesTyped, Goto, device
<1>3. /\ StepOK /\ Written' = Written /\ accepted' = accepted /\ Pending(d)' = Pending(d)
  BY <1>1, QuietStepIsOK
<1>4. /\ Settled(seen[s], accepted, Written, Pending(d))
      /\ Settled(cursor[d], accepted, Written, Pending(d))
  BY <1>1 DEF SettledInv, SettledAt
<1>5. Settled(seen[s], accepted, Written, Pending(d))'
  BY <1>2, <1>3, <1>4
<1>6. SettledAt(s)'
  BY <1>2, <1>5, BareEngine
<1>7. QED
  BY <1>2, <1>3, <1>6, OneMoves

LEMMA PullSettled ==
  ASSUME OneEnginePerDevice, Inv, SharedInv, SettledInv, Quietly,
         NEW s \in Sessions, Others(s), Pull(s)
  PROVE  SettledInv'
<1>. DEFINE d == DeviceOf[s]
            n == Len(accepted)
<1>1. /\ EnginesTyped /\ d \in Devices /\ seen[s] \in Nat /\ seen[s] <= n
      /\ n \in Nat /\ Len(local[d]) <= n /\ IsSequence(accepted) /\ Len(local[d]) \in Nat
  BY EngineFacts, EngineLimits DEF LogOK
<1>2. /\ UNCHANGED <<seen, local, cursor>> /\ pulled'[s] = Since(seen[s])
      /\ pc'[s] = IF Since(seen[s]) = <<>> THEN "preflight" ELSE "import"
  BY <1>1 DEF Pull, EnginesTyped, Goto, device
<1>3. StepOK /\ Written' = Written /\ accepted' = accepted
  BY QuietStepIsOK
<1>4. Len(Since(seen[s])) = n - seen[s]
  <2>. DEFINE m == seen[s] + 1
  <2>1. m \in Nat \ {0}
    BY <1>1
  <2>. HIDE DEF m
  <2>2. Len(SubSeq(accepted, m, n)) = IF m <= n THEN n - m + 1 ELSE 0
    BY <1>1, <2>1, SubSequence
  <2>3. QED
    BY <1>1, <2>2 DEF Since, m
<1>5. ReadTo(s)' = n
  BY <1>1, <1>2, <1>4 DEF ReadTo
<1>6. Boundary(n, accepted, Written)
  BY <1>1, AtEnd, WrittenIsBatch DEF Boundary, SharedInv, LogInv
<1>7. pc'[s] = "preflight" => Len(local[d]) <= seen[s]
  <2>1. Since(seen[s]) = <<>> => n - seen[s] = 0
    BY <1>4, EmptyIsSequence
  <2>2. QED
    BY <1>1, <1>2, <2>1
<1>8. Settled(seen[s], accepted, Written, Pending(d))'
  BY <1>2, <1>3, SeenSettled
<1>9. SettledAt(s)'
  BY <1>1, <1>2, <1>3, <1>5, <1>6, <1>7, <1>8 DEF SettledAt
<1>10. QED
  BY <1>2, <1>3, <1>9, OneMoves

\* An import makes the replica end where the range does, or leaves its end.
LEMMA ImportedEnd ==
  ASSUME NEW replica, IsSequence(replica), NEW n, NEW events, IsSequence(events),
         Importable(replica, n, events)
  PROVE  LET result == Imported(replica, n, events)
         IN  Len(result) = Len(replica) \/ Len(result) = n + Len(events) - 1
<1>. DEFINE kept == SubSeq(replica, 1, n - 1)
<1>1. Len(replica) \in Nat /\ Len(events) \in Nat /\ n \in 1..(Len(replica) + 1)
  BY SequenceDomain DEF Importable
<1>2. CASE n + Len(events) - 1 <= Len(replica)
  BY <1>1, <1>2 DEF Imported
<1>3. CASE ~(n + Len(events) - 1 <= Len(replica))
  <2>1. IsSequence(kept) /\ Len(kept) = n - 1
    BY <1>1, SubSequence
  <2>2. Len(kept \o events) = n - 1 + Len(events)
    BY <2>1, ConcatSequence
  <2>. HIDE DEF kept
  <2>3. Imported(replica, n, events) = kept \o events
    BY <1>3 DEF Imported, kept
  <2>4. QED
    BY <1>1, <2>2, <2>3
<1>4. QED
  BY <1>2, <1>3

LEMMA ImportSettled ==
  ASSUME OneEnginePerDevice, Inv, SharedInv, SettledInv, Quietly,
         NEW s \in Sessions, Others(s), Import(s)
  PROVE  SettledInv'
<1>. DEFINE d == DeviceOf[s]
<1>1. StepOK /\ Written' = Written /\ accepted' = accepted
  BY QuietStepIsOK
<1>2. CASE End(s) /\ UNCHANGED local
  BY <1>1, <1>2, EndSettled DEF End, Import
<1>3. CASE Importable(local[d], seen[s] + 1, pulled[s])
  <2>1. /\ EnginesTyped /\ d \in Devices /\ SettledAt(s)
        /\ DOMAIN local = Devices /\ IsSequence(local[d])
    BY EngineFacts DEF SettledInv, DevicesOK, DeviceAt
  <2>2. /\ pc[s] = "import" /\ pc'[s] = "reconcile" /\ UNCHANGED <<seen, pulled, cursor>>
        /\ local' = [local EXCEPT ![d] = Imported(@, seen[s] + 1, pulled[s])]
    BY <1>3, <2>1 DEF Import, At, Goto, EnginesTyped, memory
  <2>3. IsSequence(pulled[s]) /\ Len(pulled[s]) \in Nat /\ seen[s] \in Nat
    BY <2>2, EngineLimits DEF FromLog
  <2>4. \/ Len(local'[d]) = Len(local[d])
        \/ Len(local'[d]) = seen[s] + 1 + Len(pulled[s]) - 1
    <3>. DEFINE n == seen[s] + 1
    <3>1. local'[d] = Imported(local[d], n, pulled[s])
      BY <2>1, <2>2
    <3>. HIDE DEF n
    <3>2. Len(local'[d]) = Len(local[d]) \/ Len(local'[d]) = n + Len(pulled[s]) - 1
      BY <1>3, <2>1, <2>3, <3>1, ImportedEnd DEF n
    <3>3. QED
      BY <3>2 DEF n
  <2>5. Boundary(ReadTo(s), accepted, Written) /\ Len(local[d]) <= ReadTo(s)
    BY <2>1, <2>2 DEF SettledAt
  <2>6. ReadTo(s)' = ReadTo(s) /\ Len(local'[d]) <= ReadTo(s)
    BY <2>2, <2>3, <2>4, <2>5 DEF ReadTo
  <2>7. Settled(seen[s], accepted, Written, Pending(d))'
    BY <1>1, <2>2, SeenSettled
  <2>8. SettledAt(s)'
    BY <1>1, <2>2, <2>5, <2>6, <2>7 DEF SettledAt
  <2>9. \A c \in Devices \ {d} : local'[c] = local[c]
    BY <2>1, <2>2
  <2>10. QED
    BY <1>1, <2>2, <2>8, <2>9, OneMoves
<1>4. QED
  BY <1>2, <1>3 DEF Import

LEMMA PulledIsLog ==
  ASSUME IsSequence(accepted), NEW n \in Nat, NEW events, FromLog(events, n)
  PROVE  \A i \in 1..Len(events) : events[i] = accepted[n + i]
<1>. DEFINE first == n + 1
            last == n + Len(events)
<1>1. /\ Len(events) \in Nat /\ Len(accepted) \in Nat /\ last <= Len(accepted)
      /\ events = SubSeq(accepted, first, last)
  BY SequenceDomain DEF FromLog
<1>2. first \in Nat \ {0} /\ last \in Nat /\ last - first + 1 = Len(events)
  BY <1>1
<1>3. \A i \in 1..Len(events) : first + i - 1 = n + i
  BY <1>1
<1>. HIDE DEF first, last
<1>4. \A i \in 1..(last - first + 1) : SubSeq(accepted, first, last)[i] = accepted[first + i - 1]
  BY <1>1, <1>2, SubSequence
<1>5. QED
  BY <1>1, <1>2, <1>3, <1>4

\* A batch that lies behind the cursor and within what was read was pulled.
LEMMA HeldWasPulled ==
  ASSUME Inv, SharedInv, NEW s \in Sessions, pc[s] = "reconcile", NEW b \in Written,
         Clear(b, seen[s], accepted), Holds(b, ReadTo(s), accepted)
  PROVE  WasPulled(s, b)
<1>. DEFINE n == seen[s]
            size == Len(b.events)
<1>1. /\ n \in Nat /\ FromLog(pulled[s], n) /\ Len(pulled[s]) \in Nat /\ IsSequence(accepted)
      /\ ReadTo(s) = n + Len(pulled[s]) /\ ReadTo(s) <= Len(accepted) /\ Len(accepted) \in Nat
      /\ IsSequence(pulled[s])
  BY EngineLimits DEF Inv, LogOK, ReadTo, FromLog
<1>2. DOMAIN pulled[s] = 1..Len(pulled[s])
  BY <1>1, SequenceDomain
<1>3. \A i \in 1..Len(pulled[s]) : pulled[s][i] = accepted[n + i]
  BY <1>1, PulledIsLog
<1>4. IsSequence(b.events) /\ size \in Nat \ {0} /\ DOMAIN b.events = 1..size
  BY WrittenIsBatch, SequenceDomain DEF SharedInv
<1>. HIDE DEF n, size
<1>5. PICK m \in 0..ReadTo(s) : /\ m + size <= ReadTo(s)
                                /\ \A k \in 1..size : accepted[m + k] = b.events[k]
  BY DEF Holds, size
<1>6. n <= m
  <2>. SUFFICES ASSUME ~(n <= m) PROVE FALSE
    OBVIOUS
  <2>1. m + 1 \in 1..Len(accepted) /\ m + 1 <= n /\ 1 \in 1..size
    BY <1>1, <1>4, <1>5
  <2>2. IsOf(accepted[m + 1], b)
    BY <1>5, <2>1 DEF IsOf, size
  <2>3. QED
    BY <2>1, <2>2 DEF Clear, n
<1>7. ASSUME NEW k \in 1..size PROVE \E p \in ToSet(pulled[s]) : p.id = b.events[k].id
  <2>1. m + k - n \in 1..Len(pulled[s]) /\ n + (m + k - n) = m + k
    BY <1>1, <1>4, <1>5, <1>6
  <2>2. pulled[s][m + k - n] = b.events[k]
    BY <1>3, <1>5, <2>1
  <2>3. pulled[s][m + k - n] \in ToSet(pulled[s])
    BY <1>2, <2>1 DEF ToSet
  <2>4. QED
    BY <2>2, <2>3
<1>8. QED
  BY <1>4, <1>7 DEF WasPulled, ToSet

LEMMA ReconcileSettled ==
  ASSUME OneEnginePerDevice, Inv, SharedInv, SettledInv, Quietly,
         NEW s \in Sessions, Others(s), Reconcile(s)
  PROVE  SettledInv'
<1>. DEFINE d == DeviceOf[s]
<1>1. EnginesTyped /\ d \in Devices /\ SettledAt(s) /\ DeviceAt(d)
  BY EngineFacts DEF SettledInv
<1>2. /\ pc[s] = "reconcile" /\ pc'[s] = "settle"
      /\ UNCHANGED <<seen, pulled, local, cursor, outbox>>
      /\ writes'[s] = {i \in PendingAt(d) : WasPulled(s, outbox[d][i].batch)}
  BY <1>1 DEF Reconcile, At, Goto, EnginesTyped, device
<1>3. /\ StepOK /\ Written' = Written /\ accepted' = accepted
      /\ PendingAt(d)' = PendingAt(d)
  BY <1>1, QuietStepIsOK
<1>4. Settled(seen[s], accepted, Written, Pending(d))'
  BY <1>2, <1>3, SeenSettled
<1>5. /\ Settled(seen[s], accepted, Written, Pending(d))
      /\ Boundary(ReadTo(s), accepted, Written) /\ Len(local[d]) <= ReadTo(s)
  BY <1>1, <1>2 DEF SettledAt
<1>6. ASSUME NEW k \in PendingAt(d), k \notin writes'[s]
      PROVE  Clear(outbox[d][k].batch, ReadTo(s), accepted)
  <2>. DEFINE b == outbox[d][k].batch
  <2>1. b \in Written /\ b \in Pending(d)
    BY <1>1 DEF Written, Pending, PendingAt, EntriesAt
  <2>2. ~WasPulled(s, b)
    BY <1>2, <1>6
  <2>. HIDE DEF b
  <2>3. Clear(b, seen[s], accepted)
    BY <1>5, <2>1 DEF Settled
  <2>4. Clear(b, ReadTo(s), accepted) \/ Holds(b, ReadTo(s), accepted)
    BY <1>5, <2>1 DEF Boundary
  <2>5. Clear(b, ReadTo(s), accepted)
    BY <1>2, <2>1, <2>2, <2>3, <2>4, HeldWasPulled
  <2>6. QED
    BY <2>5 DEF b
<1>7. ReadTo(s)' = ReadTo(s)
  BY <1>2 DEF ReadTo
<1>8. SettledAt(s)'
  BY <1>2, <1>3, <1>4, <1>5, <1>6, <1>7 DEF SettledAt
<1>9. QED
  BY <1>2, <1>3, <1>8, OneMoves

\* A saved cursor, in the file or in memory only.
LEMMA SaveSettled ==
  ASSUME OneEnginePerDevice, Inv, SharedInv, SettledInv, Quietly,
         NEW s \in Sessions, Others(s), NEW n, Settled(n, accepted, Written, Pending(DeviceOf[s])),
         Len(local[DeviceOf[s]]) <= n, NEW label \in {"preflight", "push"}, SaveCursor(s, n, label)
  PROVE  SettledInv'
<1>. DEFINE d == DeviceOf[s]
<1>1. EnginesTyped /\ d \in Devices /\ DOMAIN cursor = Devices
  BY EngineFacts DEF DevicesOK
<1>2. /\ pc'[s] \in {label, "idle"} /\ seen'[s] = n /\ UNCHANGED local
      /\ cursor' = cursor \/ cursor' = [cursor EXCEPT ![d] = n]
  BY <1>1 DEF SaveCursor, Leave, Goto, EnginesTyped
<1>3. StepOK /\ Written' = Written /\ accepted' = accepted /\ Pending(d)' = Pending(d)
  BY <1>1, QuietStepIsOK
<1>4. Settled(n, accepted', Written', Pending(d)')
  BY <1>3
<1>5. SettledAt(s)'
  <2>1. Settled(seen[s], accepted, Written, Pending(d))'
    BY <1>2, <1>4
  <2>2. CASE pc'[s] = "idle"
    BY <2>1, <2>2, BareEngine
  <2>3. CASE pc'[s] \in {"preflight", "push"}
    BY <1>2, <2>1, <2>3 DEF SettledAt
  <2>4. QED
    BY <1>2, <2>2, <2>3
<1>6. ASSUME NEW c \in Devices
      PROVE  cursor'[c] = cursor[c] \/ Settled(cursor[c], accepted, Written, Pending(c))'
  <2>1. CASE cursor' = cursor \/ c # d
    BY <1>1, <1>2, <2>1
  <2>2. CASE cursor' = [cursor EXCEPT ![d] = n] /\ c = d
    <3>1. cursor'[d] = n
      BY <1>1, <2>2
    <3>2. QED
      BY <1>4, <2>2, <3>1
  <2>3. QED
    BY <1>2, <2>1, <2>2
<1>7. QED
  BY <1>2, <1>3, <1>5, <1>6, OneMoves

LEMMA SavePulledSettled ==
  ASSUME OneEnginePerDevice, Inv, SharedInv, SettledInv, Quietly,
         NEW s \in Sessions, Others(s), SavePulled(s)
  PROVE  SettledInv'
<1>. DEFINE d == DeviceOf[s]
<1>1. /\ pc[s] = "settle" /\ writes[s] = {} /\ SaveCursor(s, seen[s] + Len(pulled[s]), "preflight")
  BY DEF SavePulled, At
<1>2. /\ Boundary(ReadTo(s), accepted, Written) /\ Len(local[d]) <= ReadTo(s)
      /\ \A k \in PendingAt(d) : Clear(outbox[d][k].batch, ReadTo(s), accepted)
  BY <1>1 DEF SettledInv, SettledAt
<1>3. Settled(ReadTo(s), accepted, Written, Pending(d))
  BY <1>2 DEF Settled, Pending
<1>4. SaveCursor(s, ReadTo(s), "preflight")
  BY <1>1 DEF ReadTo
<1>5. QED
  BY <1>2, <1>3, <1>4, SaveSettled

\* The range of a verdict continues what the engine has seen, so what was clear of
\* another batch stays clear of it up to the end of the range.
LEMMA ClearToVerdict ==
  ASSUME Inv, SharedInv, NEW s \in Sessions, pc[s] = "advance", SettledAt(s),
         NEW b \in Written, b # answer[s].batch, Clear(b, seen[s], accepted)
  PROVE  Clear(b, answer[s].to, accepted)
<1>. DEFINE a == answer[s].batch
            from == answer[s].from
            to == answer[s].to
<1>1. /\ a \in Written /\ answer[s].status = "accepted"
      /\ Ranged(answer[s], Len(accepted), accepted)
      /\ from <= seen[s] + 1
  BY DEF SettledAt, Recorded
<1>2. /\ \A i \in from..to : \E k \in 1..Len(a.events) : accepted[i] = a.events[k]
      /\ from \in Nat /\ to \in Nat /\ seen[s] \in Nat /\ Len(accepted) \in Nat
  <2>1. IsSequence(accepted) /\ IsSequence(a.events) /\ Len(a.events) \in Nat \ {0}
    BY <1>1, WrittenIsBatch DEF SharedInv, Inv, LogOK
  <2>2. \A i \in from..to : \E k \in 1..Len(a.events) : accepted[i] = a.events[k]
    BY <1>1, <2>1, RangeIsBatch
  <2>3. from \in Nat /\ to \in Nat
    BY <1>1 DEF Ranged
  <2>4. QED
    BY <2>2, <2>3, EngineLimits
<1>. SUFFICES ASSUME NEW i \in 1..Len(accepted), i <= to PROVE ~IsOf(accepted[i], b)
  BY DEF Clear
<1>3. CASE i <= seen[s]
  BY <1>3 DEF Clear
<1>4. CASE ~(i <= seen[s])
  <2>1. i \in from..to
    BY <1>1, <1>2, <1>4
  <2>2. PICK k \in 1..Len(a.events) : accepted[i] = a.events[k]
    BY <1>2, <2>1
  <2>3. QED
    BY <1>1, <2>2, BatchesApart DEF SharedInv
<1>5. QED
  BY <1>3, <1>4

LEMMA AdvanceSettled ==
  ASSUME OneEnginePerDevice, Inv, SharedInv, SettledInv, Quietly,
         NEW s \in Sessions, Others(s), Advance(s)
  PROVE  SettledInv'
<1>. DEFINE d == DeviceOf[s]
            to == answer[s].to
<1>1. pc[s] = "advance" /\ SettledAt(s) /\ SaveCursor(s, to, "push") /\ DeviceAt(d)
  BY EngineFacts DEF Advance, At, SettledInv
<1>2. /\ answer[s].status = "accepted" /\ to > seen[s] /\ answer[s].batch \in Written
      /\ answer[s].batch \notin Pending(d) /\ Ranged(answer[s], Len(accepted), accepted)
      /\ Len(local[d]) <= seen[s] \/ Len(local[d]) <= to
      /\ Settled(seen[s], accepted, Written, Pending(d))
  BY <1>1 DEF SettledAt, Recorded
<1>3. /\ seen[s] \in Nat /\ Len(local[d]) \in Nat /\ to \in Nat
      /\ IsSequence(accepted)
  BY <1>2, EngineLimits DEF Inv, LogOK, Ranged
<1>4. Len(local[d]) <= to
  BY <1>2, <1>3
<1>5. Holds(answer[s].batch, to, accepted)
  BY <1>2, <1>3, RangeIsBatch, WrittenIsBatch DEF SharedInv
<1>6. ASSUME NEW b \in Written PROVE Clear(b, to, accepted) \/ Holds(b, to, accepted)
  <2>1. CASE b = answer[s].batch
    BY <1>5, <2>1
  <2>2. CASE b # answer[s].batch /\ Clear(b, seen[s], accepted)
    BY <1>1, <2>2, ClearToVerdict
  <2>3. CASE Holds(b, seen[s], accepted)
    <3>1. PICK m \in 0..seen[s] : /\ m + Len(b.events) <= seen[s]
                                  /\ \A k \in 1..Len(b.events) : accepted[m + k] = b.events[k]
      BY <2>3 DEF Holds
    <3>2. Len(b.events) \in Nat
      BY WrittenIsBatch DEF SharedInv
    <3>3. m \in 0..to /\ m + Len(b.events) <= to
      BY <1>2, <1>3, <3>1, <3>2
    <3>4. QED
      BY <3>1, <3>3 DEF Holds
  <2>4. QED
    BY <1>2, <2>1, <2>2, <2>3 DEF Settled, Boundary
<1>7. ASSUME NEW b \in Pending(d) PROVE Clear(b, to, accepted)
  <2>1. b \in Written
    BY <1>1, EngineFacts DEF Pending, PendingAt, EntriesAt, Written
  <2>2. b # answer[s].batch /\ Clear(b, seen[s], accepted)
    BY <1>2 DEF Settled
  <2>3. QED
    BY <1>1, <2>1, <2>2, ClearToVerdict
<1>8. Settled(to, accepted, Written, Pending(d))
  BY <1>6, <1>7 DEF Settled, Boundary
<1>9. QED
  BY <1>1, <1>4, <1>8, SaveSettled

\* The steps that keep the cursor and leave the replica alone.
LEMMA KeepingSettled ==
  ASSUME OneEnginePerDevice, Inv, SharedInv, SettledInv, Quietly,
         NEW s \in Sessions, Others(s),
         \/ Preflight(s) \/ Screened(s) \/ Finish(s)
         \/ Offline(s) \/ Stop(s) \/ PushLate(s)
  PROVE  SettledInv'
<1>1. EnginesTyped /\ SettledAt(s)
  BY EngineFacts DEF SettledInv
<1>2. /\ UNCHANGED <<seen, local, cursor>> /\ StepOK
      /\ Written' = Written /\ accepted' = accepted
  BY QuietStepIsOK DEF Preflight, Screened, Finish, Offline, Stop, PushLate, End, device
<1>3. CASE End(s)
  BY <1>2, <1>3, EndSettled DEF End
<1>4. CASE Preflight(s) \/ Screened(s)
  <2>1. pc[s] \in {"preflight", "screen"} /\ pc'[s] \in {"screen", "push"}
    BY <1>1, <1>4 DEF Preflight, Screened, At, Goto, EnginesTyped
  <2>2. Len(local[DeviceOf[s]]) <= seen[s]
    BY <1>1, <2>1 DEF SettledAt
  <2>3. Settled(seen[s], accepted, Written, Pending(DeviceOf[s]))'
    BY <1>2, SeenSettled
  <2>4. SettledAt(s)'
    BY <1>2, <2>1, <2>2, <2>3 DEF SettledAt
  <2>5. QED
    BY <1>2, <2>4, OneMoves
<1>5. QED
  BY <1>3, <1>4 DEF Finish, Offline, Stop, PushLate
-----------------------------------------------------------------------------
(***************************************************************************)
(* The steps of an engine that write records.                              *)
(***************************************************************************)
LEMMA GivesUpSettled ==
  ASSUME OneEnginePerDevice, Inv, SharedInv, SettledInv, Quietly,
         NEW s \in Sessions, Others(s), End(s), UNCHANGED <<local, cursor>>
  PROVE  SettledInv'
  BY QuietStepIsOK, EndSettled DEF End

LEMMA SettleSettled ==
  ASSUME OneEnginePerDevice, Inv, Inv', SharedInv, SharedInv', SettledInv,
         NEW s \in Sessions, Others(s), Settle(s)
  PROVE  SettledInv'
<1>. DEFINE d == DeviceOf[s]
<1>1. UNCHANGED <<core, local, cursor, written, late>> /\ pc[s] = "settle" /\ accepted' = accepted
  BY DEF Settle, SettleFirst, At, core
<1>2. CASE End(s) /\ UNCHANGED outbox
  BY <1>1, <1>2, GivesUpSettled DEF Quietly
<1>3. ASSUME ~(End(s) /\ UNCHANGED outbox) PROVE SettledInv'
  <2>1. PICK i \in writes[s] :
          /\ Update(d, Reconciled(s, outbox[d][i].batch))
          /\ writes' = [writes EXCEPT ![s] = @ \ {i}]
          /\ UNCHANGED <<pc, seen, pulled, sends, answer>>
    BY <1>3 DEF Settle, SettleFirst
  <2>2. EnginesTyped /\ d \in Devices /\ i \in DOMAIN outbox[d] /\ SettledAt(s)
    BY EngineFacts DEF EngineAt, SettledInv
  <2>. DEFINE b == outbox[d][i].batch
              e == Reconciled(s, b)
  <2>3. e.batch = b /\ e.status = "accepted" /\ OfKnownBatch(e, d)
    BY <2>2 DEF Reconciled, Entry, OfKnownBatch
  <2>4. Update(d, e)
    BY <2>1
  <2>. HIDE DEF e
  <2>5. StepOK /\ Written' = Written
    BY <1>1, <2>2, <2>3, <2>4, RecordIsOK
  <2>6. writes'[s] = writes[s] \ {i} /\ pc'[s] = "settle" /\ ReadTo(s)' = ReadTo(s)
    BY <1>1, <2>1, <2>2 DEF EnginesTyped, ReadTo
  <2>7. ASSUME NEW k \in PendingAt(d)', k \notin writes'[s]
        PROVE  Clear(outbox'[d][k].batch, ReadTo(s), accepted)
    <3>1. /\ k \in PendingAt(d) /\ outbox'[d][k] = outbox[d][k]
          /\ outbox[d][k].batch.id # e.batch.id
      BY <2>2, <2>3, <2>4, PendingUpdated DEF StillPending
    <3>2. k \notin writes[s]
      BY <2>3, <2>6, <2>7, <3>1
    <3>3. QED
      BY <1>1, <2>2, <3>1, <3>2 DEF SettledAt
  <2>8. Settled(seen[s], accepted, Written, Pending(d))'
    BY <2>1, <2>5, SeenSettled
  <2>9. Boundary(ReadTo(s), accepted, Written) /\ Len(local[d]) <= ReadTo(s)
    BY <1>1, <2>2 DEF SettledAt
  <2>10. SettledAt(s)'
    BY <1>1, <2>5, <2>6, <2>7, <2>8, <2>9 DEF SettledAt
  <2>11. QED
    BY <1>1, <2>5, <2>10, OneMoves
<1>4. QED
  BY <1>2, <1>3

LEMMA ScreenSettled ==
  ASSUME OneEnginePerDevice, Inv, Inv', SharedInv, SharedInv', SettledInv,
         NEW s \in Sessions, Others(s), Screen(s)
  PROVE  SettledInv'
<1>. DEFINE d == DeviceOf[s]
<1>1. UNCHANGED <<core, local, cursor, written, late>> /\ pc[s] = "screen"
  BY DEF Screen, SettleFirst, At
<1>2. CASE End(s) /\ UNCHANGED outbox
  BY <1>1, <1>2, GivesUpSettled DEF Quietly
<1>3. ASSUME ~(End(s) /\ UNCHANGED outbox) PROVE SettledInv'
  <2>1. PICK i \in writes[s] :
          /\ Update(d, Entry(outbox[d][i].batch, "rejected", "preflight"))
          /\ UNCHANGED <<pc, seen>>
    BY <1>3 DEF Screen, SettleFirst
  <2>2. d \in Devices /\ i \in DOMAIN outbox[d] /\ SettledAt(s)
    BY EngineFacts DEF EngineAt, SettledInv
  <2>. DEFINE e == Entry(outbox[d][i].batch, "rejected", "preflight")
  <2>3. e.status = "rejected" /\ OfKnownBatch(e, d)
    BY <2>2 DEF Entry, OfKnownBatch
  <2>4. Update(d, e)
    BY <2>1
  <2>. HIDE DEF e
  <2>5. StepOK
    BY <1>1, <2>2, <2>3, <2>4, RecordIsOK
  <2>6. Settled(seen[s], accepted, Written, Pending(d))'
    BY <2>1, <2>5, SeenSettled
  <2>7. SettledAt(s)'
    BY <1>1, <2>1, <2>2, <2>6 DEF SettledAt
  <2>8. QED
    BY <1>1, <2>5, <2>7, OneMoves
<1>4. QED
  BY <1>2, <1>3

LEMMA RecordVerdictSettled ==
  ASSUME OneEnginePerDevice, Inv, Inv', SharedInv, SharedInv', SettledInv,
         NEW s \in Sessions, Others(s), RecordVerdict(s)
  PROVE  SettledInv'
<1>. DEFINE d == DeviceOf[s]
            e == answer[s]
<1>1. UNCHANGED <<core, local, cursor, written, late>> /\ pc[s] = "record" /\ accepted' = accepted
  BY DEF RecordVerdict, At, core
<1>2. CASE End(s) /\ UNCHANGED outbox
  BY <1>1, <1>2, GivesUpSettled DEF Quietly
<1>3. ASSUME ~(End(s) /\ UNCHANGED outbox) PROVE SettledInv'
  <2>1. /\ Update(d, e) /\ UNCHANGED <<seen, answer>>
        /\ Goto(s, IF e.to > seen[s] THEN "advance" ELSE "push")
    BY <1>3 DEF RecordVerdict
  <2>2. /\ EnginesTyped /\ d \in Devices /\ SettledAt(s) /\ HeldAt(s)
        /\ Bounded(e, Len(local[d])) /\ seen[s] \in Nat
    BY <1>1, EngineFacts DEF EngineAt, SettledInv, SharedInv, HeldInv
  <2>3. /\ e.status # "pending" /\ OfKnownBatch(e, d) /\ Ranged(e, Len(local[d]), accepted)
        /\ e.batch \in Written
    BY <1>1, <2>2 DEF SettledAt, HeldAt, OfKnownBatch, Written
  <2>4. /\ Len(local[d]) <= seen[s] \/ Len(local[d]) <= e.to
        /\ e.status = "accepted" => e.from <= seen[s] + 1
    BY <1>1, <2>2 DEF SettledAt
  <2>5. e.to \in Nat /\ e.to <= Len(local[d]) /\ (e.status # "accepted" => e.to = 0)
    BY <2>2 DEF Bounded
  <2>6. StepOK /\ Written' = Written
    BY <1>1, <2>1, <2>2, <2>3, RecordIsOK
  <2>7. Settled(seen[s], accepted, Written, Pending(d))'
    BY <2>1, <2>6, SeenSettled
  <2>8. pc'[s] = IF e.to > seen[s] THEN "advance" ELSE "push"
    BY <2>1, <2>2 DEF Goto, EnginesTyped
  <2>9. CASE e.to > seen[s]
    <3>1. e.status = "accepted"
      BY <2>2, <2>5, <2>9
    <3>2. Ranged(e, Len(accepted), accepted)
      <4>1. Len(local[d]) \in Nat /\ Len(accepted) \in Nat /\ Len(local[d]) <= Len(accepted)
        BY EngineLimits
      <4>2. QED
        BY <2>3, <2>5, <4>1 DEF Ranged
    <3>3. e.batch \notin Pending(d)'
      <4>1. \A k \in PendingAt(d)' : outbox'[d][k].batch.id # e.batch.id
        BY <2>1, <2>2, <2>3, PendingUpdated DEF StillPending
      <4>2. QED
        BY <4>1 DEF Pending
    <3>4. Recorded(s)'
      BY <1>1, <2>1, <2>3, <2>6, <2>9, <3>1, <3>2, <3>3 DEF Recorded
    <3>5. SettledAt(s)'
      BY <1>1, <2>1, <2>4, <2>7, <2>8, <2>9, <3>4 DEF SettledAt
    <3>6. QED
      BY <1>1, <2>6, <3>5, OneMoves
  <2>10. CASE ~(e.to > seen[s])
    <3>1. Len(local[d]) <= seen[s]
      <4>1. Len(local[d]) \in Nat
        BY EngineLimits
      <4>2. QED
        BY <2>2, <2>4, <2>5, <2>10, <4>1
    <3>2. SettledAt(s)'
      BY <1>1, <2>1, <2>7, <2>8, <2>10, <3>1 DEF SettledAt
    <3>3. QED
      BY <1>1, <2>6, <3>2, OneMoves
  <2>11. QED
    BY <2>9, <2>10
<1>4. QED
  BY <1>2, <1>3

\* A push that went stale writes a record of a batch that is nowhere.
LEMMA PushStaleSettled ==
  ASSUME OneEnginePerDevice, Inv, Inv', SharedInv, SharedInv', SettledInv,
         NEW s \in Sessions, Others(s), PushStale(s)
  PROVE  SettledInv'
<1>. DEFINE d == DeviceOf[s]
<1>1. /\ UNCHANGED <<core, local, cursor, written, late>> /\ End(s)
      /\ d \in Devices /\ EngineAt(s)
  BY EngineFacts DEF PushStale
<1>2. PICK b \in ToSend(s) : StoredAt(b) = {} /\ Update(d, Entry(b, "pending", "stale"))
  BY DEF PushStale
<1>3. PICK i \in sends[s] : b = outbox[d][i].batch
  BY DEF ToSend
<1>. DEFINE e == Entry(b, "pending", "stale")
<1>4. i \in DOMAIN outbox[d] /\ b \in Written /\ OfKnownBatch(e, d) /\ e.batch = b
  BY <1>1, <1>3 DEF EngineAt, Written, OfKnownBatch, Entry
<1>5. Absent(b, accepted)
  BY <1>2, <1>4, RecognizedIsStored DEF SharedInv
<1>6. Update(d, e)
  BY <1>2
<1>. HIDE DEF e
<1>7. StepOK
  BY <1>1, <1>4, <1>5, <1>6, RecordIsOK
<1>8. QED
  BY <1>1, <1>7, EndSettled DEF End
-----------------------------------------------------------------------------
(***************************************************************************)
(* The push, and what comes to the log without an engine.                  *)
(***************************************************************************)
LEMMA ImportPushedSettled ==
  ASSUME OneEnginePerDevice, Inv, SharedInv, SettledInv, Quietly,
         NEW s \in Sessions, Others(s), ImportPushed(s)
  PROVE  SettledInv'
<1>. DEFINE d == DeviceOf[s]
            from == answer[s].from
            to == answer[s].to
            range == SubSeq(accepted, from, to)
<1>1. /\ StepOK /\ Written' = Written /\ accepted' = accepted
      /\ UNCHANGED cursor /\ pc[s] = "answered"
  BY QuietStepIsOK DEF ImportPushed, At
<1>2. CASE End(s) /\ UNCHANGED local
  BY <1>1, <1>2, EndSettled DEF End
<1>3. CASE Importable(local[d], from, range)
  <2>1. /\ EnginesTyped /\ d \in Devices /\ SettledAt(s) /\ HeldAt(s)
        /\ DOMAIN local = Devices /\ IsSequence(local[d]) /\ IsSequence(accepted)
        /\ Len(local[d]) \in Nat /\ seen[s] \in Nat /\ Len(accepted) \in Nat
    BY EngineFacts, EngineLimits DEF SettledInv, SharedInv, HeldInv, DevicesOK, DeviceAt, LogOK
  <2>2. /\ pc'[s] = "record" /\ UNCHANGED <<seen, answer>>
        /\ local' = [local EXCEPT ![d] = Imported(@, from, range)]
    BY <1>3, <2>1 DEF ImportPushed, Goto, EnginesTyped, memory
  <2>3. /\ answer[s].status = "accepted" /\ Len(local[d]) <= seen[s]
        /\ Ranged(answer[s], Len(accepted), accepted)
        /\ \E i \in DOMAIN outbox[d] : outbox[d][i].batch = answer[s].batch
    BY <1>1, <2>1 DEF SettledAt, HeldAt
  <2>4. from \in Nat \ {0} /\ to \in Nat /\ to <= Len(accepted) /\ from <= to
    <3>1. answer[s].batch \in Written
      BY <2>1, <2>3 DEF Written
    <3>2. IsSequence(answer[s].batch.events) /\ Len(answer[s].batch.events) \in Nat \ {0}
      BY <3>1, WrittenIsBatch DEF SharedInv
    <3>3. to = from + Len(answer[s].batch.events) - 1
      BY <2>1, <2>3, <3>2, RangeIsBatch
    <3>4. from \in Nat \ {0} /\ to \in Nat /\ to <= Len(accepted)
      BY <2>3 DEF Ranged
    <3>5. QED
      BY <3>2, <3>3, <3>4
  <2>5. local'[d] = Imported(local[d], from, range)
    BY <2>1, <2>2
  <2>6. \A c \in Devices \ {d} : local'[c] = local[c]
    BY <2>1, <2>2
  <2>. HIDE DEF from, to
  <2>7. IsSequence(range) /\ Len(range) = to - from + 1
    BY <2>1, <2>4, SubSequence
  <2>8. from <= seen[s] + 1
    BY <1>3, <2>1, <2>3, <2>4 DEF Importable
  <2>. HIDE DEF range
  <2>9. Len(local'[d]) = Len(local[d]) \/ Len(local'[d]) = from + Len(range) - 1
    BY <1>3, <2>1, <2>5, <2>7, ImportedEnd
  <2>10. Len(local'[d]) <= seen[s] \/ Len(local'[d]) <= to
    BY <2>1, <2>3, <2>4, <2>7, <2>9
  <2>11. Settled(seen[s], accepted, Written, Pending(d))'
    BY <1>1, <2>2, SeenSettled
  <2>12. SettledAt(s)'
    BY <2>2, <2>3, <2>8, <2>10, <2>11 DEF SettledAt, from, to
  <2>13. QED
    BY <1>1, <2>6, <2>12, OneMoves
<1>4. QED
  BY <1>2, <1>3 DEF ImportPushed

LEMMA PushSettled ==
  ASSUME OneEnginePerDevice, Inv, SharedInv, SettledInv,
         NEW s \in Sessions, Others(s), Push(s) \/ PushUnheard(s)
  PROVE  SettledInv'
<1>. DEFINE d == DeviceOf[s]
<1>1. EnginesTyped /\ EngineAt(s) /\ SettledAt(s) /\ d \in Devices
  BY EngineFacts DEF SettledInv
<1>2. UNCHANGED <<local, outbox, cursor>>
  BY DEF Push, PushUnheard, device
<1>3. PICK b \in ToSend(s) :
        /\ Sending(s, b) /\ Perform(Verdict(b))
        /\ End(s) \/ Hear(s, b, Verdict(b))
  BY DEF Push, PushUnheard
<1>4. LogGrows
  BY <1>3, SentBatch, PerformVerdict
<1>5. StepOK
  BY <1>2, <1>4, QuietIsOK
<1>6. CASE \E heard : Leave(s, heard) /\ UNCHANGED seen
  BY <1>2, <1>5, <1>6, EndSettled
<1>. DEFINE v == Verdict(b)
            verdict == [Entry(b, v.status, "pushed") EXCEPT !.from = v.from, !.to = v.to]
<1>7. Hear(s, b, v) \/ End(s)
  BY <1>3
<1>. HIDE DEF v
<1>8. verdict.status = v.status
  BY DEF Entry
<1>9. Hear(s, b, v) =>
        \/ \E heard : Leave(s, heard) /\ UNCHANGED seen
        \/ /\ answer' = [answer EXCEPT ![s] = verdict] /\ UNCHANGED seen
           /\ \/ v.status = "accepted" /\ Goto(s, "answered")
              \/ v.status \in {"rejected", "conflict"} /\ Goto(s, "record")
  BY DEF Hear, End, verdict
<1>. HIDE DEF verdict
<1>10. CASE /\ answer' = [answer EXCEPT ![s] = verdict] /\ UNCHANGED seen
            /\ \/ v.status = "accepted" /\ Goto(s, "answered")
               \/ v.status \in {"rejected", "conflict"} /\ Goto(s, "record")
  <2>1. Len(local[d]) <= seen[s]
    BY <1>1, <1>3 DEF Sending, At, SettledAt
  <2>2. Settled(seen[s], accepted, Written, Pending(d))'
    BY <1>5, <1>10, SeenSettled
  <2>3. answer'[s] = verdict /\ seen'[s] = seen[s] /\ local'[d] = local[d]
    BY <1>1, <1>2, <1>10 DEF EnginesTyped
  <2>4. \/ v.status = "accepted" /\ pc'[s] = "answered"
        \/ v.status \in {"rejected", "conflict"} /\ pc'[s] = "record"
    BY <1>1, <1>10 DEF Goto, EnginesTyped
  <2>5. SettledAt(s)'
    BY <1>8, <2>1, <2>2, <2>3, <2>4 DEF SettledAt
  <2>6. QED
    BY <1>2, <1>5, <2>5, OneMoves
<1>11. QED
  BY <1>6, <1>7, <1>9, <1>10 DEF End

LEMMA ServedSettled ==
  ASSUME Inv, SharedInv, SettledInv, DeliverLate \/ Service \/ UNCHANGED vars
  PROVE  SettledInv'
<1>1. UNCHANGED <<local, outbox, cursor, engine>>
  BY DEF DeliverLate, Service, vars, device
<1>2. LogGrows
  <2>1. CASE DeliverLate
    <3>1. PICK b \in late : Perform(Verdict(b))
      BY <2>1 DEF DeliverLate
    <3>2. QED
      BY <3>1, PerformVerdict DEF Inv, LateOK
  <2>2. CASE Service
    BY <2>2, ServiceKeepsLog DEF Service, Inv, LogOK
  <2>3. CASE UNCHANGED vars
    BY <2>3, LogUnchanged DEF vars
  <2>4. QED
    BY <2>1, <2>2, <2>3
<1>3. StepOK
  BY <1>1, <1>2, QuietIsOK
<1>4. QED
  BY <1>1, <1>3, NoneMoves

\* A batch that the device writes has a new name: it is nowhere yet.
LEMMA LocalAppendSettled ==
  ASSUME Inv, FunctionsOK, SharedInv, SettledInv, NEW d \in Devices, LocalAppend(d)
  PROVE  SettledInv'
<1>. DEFINE b == NextBatch(d)
            e == Entry(b, "pending", "written")
            n == Len(outbox[d])
<1>1. /\ outbox' = [outbox EXCEPT ![d] = Append(@, e)]
      /\ UNCHANGED <<core, local, cursor, engine>>
  BY DEF LocalAppend
<1>2. LogGrows /\ accepted' = accepted
  BY <1>1, LogUnchanged
<1>3. Absent(b, accepted)
  BY NextBatchIsNew
<1>4. e.batch = b
  BY DEF Entry
<1>. HIDE DEF b, e
<1>5. StillPending(d, e)
  BY <1>1, PendingAppended
<1>6. DOMAIN outbox = Devices /\ IsSequence(outbox[d])
  BY DEF Inv, DevicesOK, DeviceAt
<1>7. outbox'[d] = Append(outbox[d], e) /\ \A c \in Devices \ {d} : outbox'[c] = outbox[c]
  BY <1>1, <1>6
<1>8. /\ n \in Nat /\ DOMAIN outbox[d] = 1..n /\ DOMAIN outbox'[d] = 1..(n + 1)
      /\ \A i \in 1..n : outbox'[d][i] = outbox[d][i]
      /\ outbox'[d][n + 1] = e
  BY <1>6, <1>7, AppendSequence, SequenceDomain
<1>. HIDE DEF n
<1>9. ASSUME NEW a \in Written' PROVE a \in Written \/ a = b
  <2>1. PICK c \in Devices : \E i \in DOMAIN outbox'[c] : a = outbox'[c][i].batch
    BY <1>9 DEF Written
  <2>2. PICK i \in DOMAIN outbox'[c] : a = outbox'[c][i].batch
    BY <2>1
  <2>3. CASE c # d
    BY <1>7, <2>2, <2>3 DEF Written
  <2>4. CASE c = d /\ i = n + 1
    BY <1>4, <1>8, <2>2, <2>4
  <2>5. CASE c = d /\ i # n + 1
    <3>1. i \in 1..n
      BY <1>8, <2>2, <2>5
    <3>2. a = outbox[d][i].batch /\ i \in DOMAIN outbox[d]
      BY <1>8, <2>2, <2>5, <3>1
    <3>3. QED
      BY <3>2 DEF Written
  <2>6. QED
    BY <2>3, <2>4, <2>5
<1>10. RecordsStay
  <2>. SUFFICES ASSUME NEW c \in Devices, NEW i \in DOMAIN outbox[c]
                PROVE  i \in DOMAIN outbox'[c] /\ outbox'[c][i] = outbox[c][i]
    BY DEF RecordsStay
  <2>1. CASE c = d
    <3>1. i \in 1..n /\ i \in 1..(n + 1)
      BY <1>8, <2>1
    <3>2. QED
      BY <1>8, <2>1, <3>1
  <2>2. CASE c # d
    BY <1>7, <2>2
  <2>3. QED
    BY <2>1, <2>2
<1>11. Written \subseteq Written'
  BY <1>10 DEF Written, RecordsStay
<1>12. StepOK
  BY <1>2, <1>3, <1>4, <1>5, <1>9, <1>11 DEF StepOK, StillPending
<1>13. QED
  BY <1>1, <1>12, NoneMoves
-----------------------------------------------------------------------------
LEMMA SettledInitially ==
  ASSUME Init
  PROVE  SettledInv
<1>1. \A d \in Devices : outbox[d] = <<>> /\ DOMAIN outbox[d] = {}
  BY DEF Init
<1>2. Written = {} /\ \A d \in Devices : Pending(d) = {}
  BY <1>1 DEF Written, Pending, PendingAt, EntriesAt
<1>3. \A n, log : Settled(n, log, {}, {})
  BY DEF Settled, Boundary
<1>4. \A s \in Sessions : pc[s] = "idle" /\ DeviceOf[s] \in Devices
  BY DeviceOfEngine DEF Init
<1>5. \A s \in Sessions : SettledAt(s)
  BY <1>2, <1>3, <1>4 DEF SettledAt
<1>6. QED
  BY <1>2, <1>3, <1>5 DEF SettledInv

LEMMA SettledStep ==
  ASSUME OneEnginePerDevice, Inv, Inv', FunctionsOK, SharedInv, SharedInv', SettledInv, [Next]_vars
  PROVE  SettledInv'
<1>1. ASSUME NEW s \in Sessions,
             Attempt(s) \/ PushUnheard(s) \/ PushLate(s) \/ PushStale(s) \/ Stop(s)
      PROVE  SettledInv'
  <2>1. Others(s)
    BY <1>1, OthersRest DEF Others, Inv, EnginesOK
  <2>2. CASE \/ Start(s) \/ Pull(s) \/ Import(s) \/ Reconcile(s) \/ SavePulled(s) \/ Preflight(s)
             \/ Screened(s) \/ ImportPushed(s) \/ Advance(s) \/ Finish(s) \/ Offline(s)
             \/ Stop(s) \/ PushLate(s)
    <3>1. Quietly
      BY <2>2 DEF Quietly, Start, Pull, Import, Reconcile, SavePulled, SaveCursor, Preflight,
         Screened, ImportPushed, Advance, Finish, Offline, Stop, PushLate, device
    <3>2. QED
      BY <2>1, <2>2, <3>1, StartSettled, PullSettled, ImportSettled, ReconcileSettled,
         SavePulledSettled, KeepingSettled, ImportPushedSettled, AdvanceSettled
  <2>3. QED
    BY <1>1, <2>1, <2>2, SettleSettled, ScreenSettled, RecordVerdictSettled, PushStaleSettled,
       PushSettled DEF Attempt
<1>2. ASSUME NEW d \in Devices, LocalAppend(d) PROVE SettledInv'
  BY <1>2, LocalAppendSettled
<1>3. QED
  BY <1>1, <1>2, ServedSettled DEF Next

(***************************************************************************)
(* Reconciliation precedes the cursor: when every device has one engine,   *)
(* no accepted batch is at or before the saved cursor while its entry is   *)
(* pending, so a later pull still brings it.                               *)
(***************************************************************************)
THEOREM NothingIsHidden == OneEnginePerDevice => (Spec => []NothingHidden)
<1>. SUFFICES ASSUME OneEnginePerDevice PROVE Spec => []NothingHidden
  OBVIOUS
<1>1. Init => Inv /\ FunctionsOK /\ SharedInv /\ SettledInv
  BY InvInitially, SharedInitially, SettledInitially
<1>2. Inv /\ FunctionsOK /\ SharedInv /\ SettledInv /\ [Next]_vars
        => (Inv /\ FunctionsOK /\ SharedInv /\ SettledInv)'
  <2>1. SUFFICES ASSUME Inv, FunctionsOK, SharedInv, SettledInv, [Next]_vars
                 PROVE  (Inv /\ FunctionsOK /\ SharedInv /\ SettledInv)'
    OBVIOUS
  <2>2. Inv' /\ FunctionsOK'
    BY <2>1, InvStep, FunctionsStep
  <2>3. SharedInv'
    BY <2>1, <2>2, SharedStep
  <2>4. SettledInv'
    BY <2>1, <2>2, <2>3, SettledStep
  <2>5. QED
    BY <2>2, <2>3, <2>4
<1>3. Inv /\ SettledInv => NothingHidden
  <2>. SUFFICES ASSUME Inv, SettledInv, NEW d \in Devices, NEW k \in PendingAt(d),
                       NEW i \in DOMAIN accepted, i <= cursor[d]
                PROVE  accepted[i].batch # outbox[d][k].batch.id
    BY DEF NothingHidden
  <2>1. i \in 1..Len(accepted)
    BY SequenceDomain DEF Inv, LogOK
  <2>2. Clear(outbox[d][k].batch, cursor[d], accepted)
    BY DEF SettledInv, Settled, Pending
  <2>3. QED
    BY <2>1, <2>2 DEF Clear, IsOf
<1>4. QED
  BY <1>1, <1>2, <1>3, PTL DEF Spec
-----------------------------------------------------------------------------
(***************************************************************************)
(* What a device gives up was not accepted, and never is: with one engine  *)
(* on each device, and as long as a request that outlived its client is    *)
(* handled before the device's next attempt.  A pull then brings all that  *)
(* was accepted of the device's batches, so that the preflight and the     *)
(* push judge only batches that are nowhere; and what is given up is not   *)
(* sent again.  Without the first, another engine accepts a batch between  *)
(* pull and preflight; without the second, Team Core does.                 *)
(***************************************************************************)
LateRequestsFirst ==
  \A s \in Sessions : pc[s] # "idle" => \A b \in Pending(DeviceOf[s]) : b \notin late

\* What the device holds to be rejected, or in conflict.
Refusals == {"rejected", "conflict"}

GivenUp(d) ==
  {outbox[d][k].batch : k \in {i \in DOMAIN outbox[d] : outbox[d][i].status \in Refusals}}

GivenUpForGood(d) ==
  \A b \in GivenUp(d) : b \notin Pending(d) /\ b \notin late /\ Absent(b, accepted)

\* Nothing of the batch is in the log behind its first n events.
NotAfter(b, n, log) == \A i \in 1..Len(log) : i > n => ~IsOf(log[i], b)

\* Once an engine has pulled, what is pending is nowhere, but for its own push.
JudgedAt(s) ==
  LET d == DeviceOf[s]
  IN /\ pc[s] \in {"import", "reconcile", "settle"} =>
          \A b \in Pending(d) : NotAfter(b, ReadTo(s), accepted)
     /\ pc[s] \in {"preflight", "screen", "push", "answered", "record", "advance"} =>
          \A b \in Pending(d) :
            \/ Absent(b, accepted)
            \/ /\ pc[s] \in {"answered", "record"}
               /\ answer[s].status = "accepted" /\ b = answer[s].batch
     /\ pc[s] = "screen" => writes[s] \subseteq PendingAt(d) \ sends[s]
     /\ pc[s] \in {"screen", "push", "answered", "record", "advance"} =>
          sends[s] \subseteq PendingAt(d)
     /\ pc[s] \in {"answered", "record"} =>
          \E k \in sends[s] : First(k, sends[s]) /\ outbox[d][k].batch = answer[s].batch
     /\ pc[s] = "record" /\ answer[s].status # "accepted" =>
          Absent(answer[s].batch, accepted)

JudgedInv ==
  /\ \A d \in Devices : GivenUpForGood(d)
  /\ \A s \in Sessions : JudgedAt(s)

\* A step appends nothing of the batch.
NothingNew(b) == \A i \in 1..Len(accepted') : i > Len(accepted) => ~IsOf(accepted'[i], b)
-----------------------------------------------------------------------------
LEMMA NothingOfIt ==
  ASSUME Inv, LogGrows, NEW b, NothingNew(b)
  PROVE  /\ Absent(b, accepted) => Absent(b, accepted')
         /\ \A n : NotAfter(b, n, accepted) => NotAfter(b, n, accepted')
<1>1. /\ Len(accepted) \in Nat /\ Len(accepted') \in Nat
      /\ \A i \in 1..Len(accepted) : accepted'[i] = accepted[i]
  BY SequenceDomain, PrefixByIndex DEF Inv, LogOK, LogGrows
<1>2. \A i \in 1..Len(accepted') : i > Len(accepted) \/ i \in 1..Len(accepted)
  BY <1>1
<1>3. QED
  BY <1>1, <1>2 DEF Absent, NotAfter, NothingNew

LEMMA NothingIsNew ==
  ASSUME Inv, accepted' = accepted, NEW b
  PROVE  NothingNew(b)
<1>1. Len(accepted) \in Nat
  BY SequenceDomain DEF Inv, LogOK
<1>2. \A i \in 1..Len(accepted) : ~(i > Len(accepted))
  BY <1>1
<1>3. QED
  BY <1>2 DEF NothingNew

\* What Team Core appends on a push is of the batch pushed, and only when it accepts.
LEMMA NewOfVerdict ==
  ASSUME Inv, SharedInv, NEW b \in Written, Perform(Verdict(b)), outbox' = outbox,
         NEW a \in Written, a # b \/ Verdict(b).status # "accepted"
  PROVE  NothingNew(a)
<1>. DEFINE v == Verdict(b)
<1>1. /\ LogInv /\ NamesInv /\ IsSequence(accepted) /\ Len(accepted) \in Nat
      /\ IsSequence(b.events)
  BY WrittenIsBatch, SequenceDomain DEF SharedInv, Inv, LogOK
<1>2. accepted' = accepted \o v.append
  BY <1>1, LogOfVerdict
<1>3. \/ v.append = b.events /\ a # b
      \/ v.append = <<>>
      \/ \E s, code : v.append = <<ConflictOpened(s, b, code)>>
  <2>. DEFINE kind == DetectConflict(Reduce(accepted), b)
  <2>1. \/ v = Appended(b.events) /\ Pushes(b)
        \/ v.status # "accepted" /\ v.append = <<>>
        \/ /\ v.status # "accepted"
           /\ v.append = <<ConflictOpened(Reduce(accepted), b, kind)>>
        \/ v = Stored(StoredAt(b)) /\ StoredAt(b) # {}
    BY <1>1, VerdictOnBatch
  <2>2. a # b \/ v.status # "accepted"
    OBVIOUS
  <2>. HIDE DEF v, kind
  <2>3. CASE v = Appended(b.events)
    BY <2>2, <2>3 DEF Appended
  <2>4. CASE v = Stored(StoredAt(b))
    BY <2>4 DEF Stored, Answer
  <2>5. QED
    BY <2>1, <2>3, <2>4
<1>4. \A s, code : FromService(ConflictOpened(s, b, code), Len(accepted) + 1)
  BY DEF ConflictOpened, ServiceId, FromService
<1>5. IsSequence(v.append)
  BY <1>1, VerdictIsBounded
<1>. HIDE DEF v
<1>6. /\ Len(v.append) \in Nat /\ Len(accepted') = Len(accepted) + Len(v.append)
      /\ \A k \in 1..Len(v.append) : accepted'[Len(accepted) + k] = v.append[k]
  BY <1>1, <1>2, <1>5, ConcatSequence, SequenceDomain
<1>7. ASSUME NEW k \in 1..Len(v.append) PROVE ~IsOf(v.append[k], a)
  <2>1. CASE v.append = b.events /\ a # b
    BY <1>1, <1>7, <2>1, BatchesApart
  <2>2. CASE v.append = <<>>
    BY <1>7, <2>2
  <2>3. CASE \E s, code : v.append = <<ConflictOpened(s, b, code)>>
    <3>1. PICK s, code : v.append = <<ConflictOpened(s, b, code)>>
      BY <2>3
    <3>2. v.append[k] = ConflictOpened(s, b, code)
      BY <1>7, <3>1
    <3>3. QED
      BY <1>1, <1>4, <3>2, ServiceApart
  <2>4. QED
    BY <1>3, <2>1, <2>2, <2>3
<1>8. QED
  <2>. SUFFICES ASSUME NEW i \in 1..Len(accepted'), i > Len(accepted) PROVE ~IsOf(accepted'[i], a)
    BY DEF NothingNew
  <2>1. i - Len(accepted) \in 1..Len(v.append) /\ Len(accepted) + (i - Len(accepted)) = i
    BY <1>1, <1>6
  <2>2. QED
    BY <1>6, <1>7, <2>1

\* Two devices write different batches.
LEMMA DevicesApart ==
  ASSUME NamesInv, NEW c \in Devices, NEW d \in Devices, c # d,
         NEW i \in DOMAIN outbox[c], NEW k \in DOMAIN outbox[d]
  PROVE  outbox[c][i].batch # outbox[d][k].batch
<1>1. PICK j \in DOMAIN Work[c] : BatchOf(outbox[c][i].batch, Work[c][j].name)
  BY DEF NamesInv, NamedAt
<1>2. PICK l \in DOMAIN Work[d] : BatchOf(outbox[d][k].batch, Work[d][l].name)
  BY DEF NamesInv, NamedAt
<1>3. Work[c][j].name # Work[d][l].name
  BY NamesAssumption
<1>. DEFINE x == Work[c][j].name
            y == Work[d][l].name
<1>4. outbox[c][i].batch.id = <<x, 0>> /\ outbox[d][k].batch.id = <<y, 0>> /\ x # y
  BY <1>1, <1>2, <1>3 DEF BatchOf
<1>. HIDE DEF x, y
<1>5. QED
  BY <1>4

LEMMA HeldIsWritten ==
  ASSUME NEW d \in Devices
  PROVE  /\ Pending(d) \subseteq Written /\ GivenUp(d) \subseteq Written
         /\ PendingAt(d) \subseteq DOMAIN outbox[d]
         /\ \A b \in Pending(d) \cup GivenUp(d) : \E k \in DOMAIN outbox[d] : b = outbox[d][k].batch
  BY DEF Pending, GivenUp, PendingAt, EntriesAt, Written
\* Neither the engine nor its device's records are touched, or a new one is absent.
DeviceKeeps(d) ==
  /\ \A k \in DOMAIN outbox[d] : k \in DOMAIN outbox'[d] /\ outbox'[d][k] = outbox[d][k]
  /\ PendingAt(d) \subseteq PendingAt(d)'
  /\ \A b \in Pending(d)' : b \in Pending(d) \/ Absent(b, accepted')

LEMMA RestsJudged ==
  ASSUME Inv, LogGrows, NEW s \in Sessions, JudgedAt(s), Rests(s), DeviceKeeps(DeviceOf[s]),
         pc[s] # "idle" => \A b \in Pending(DeviceOf[s]) : NothingNew(b)
  PROVE  JudgedAt(s)'
<1>. DEFINE d == DeviceOf[s]
<1>1. /\ pc'[s] = pc[s] /\ writes'[s] = writes[s] /\ sends'[s] = sends[s]
      /\ answer'[s] = answer[s] /\ ReadTo(s)' = ReadTo(s)
  BY DEF Rests, ReadTo
<1>2. CASE pc[s] = "idle"
  BY <1>1, <1>2 DEF JudgedAt
<1>3. CASE pc[s] # "idle"
  <2>1. \A b \in Pending(d) :
          /\ Absent(b, accepted) => Absent(b, accepted')
          /\ \A n : NotAfter(b, n, accepted) => NotAfter(b, n, accepted')
    BY <1>3, NothingOfIt
  <2>2. \A b \in Pending(d)' : b \in Pending(d) \/ Absent(b, accepted')
    BY DEF DeviceKeeps
  <2>3. \A b, n : Absent(b, accepted') => NotAfter(b, n, accepted')
    BY DEF Absent, NotAfter
  <2>4. EngineAt(s) /\ PendingAt(d) \subseteq PendingAt(d)'
        /\ \A k \in DOMAIN outbox[d] : outbox'[d][k] = outbox[d][k]
    BY EngineFacts DEF DeviceKeeps
  <2>5. sends[s] \subseteq DOMAIN outbox[d]
    BY <2>4 DEF EngineAt
  <2>6. ASSUME pc[s] \in {"import", "reconcile", "settle"}, NEW b \in Pending(d)'
        PROVE  NotAfter(b, ReadTo(s), accepted')
    BY <2>1, <2>2, <2>3, <2>6 DEF JudgedAt
  <2>7. ASSUME pc[s] \in {"preflight", "screen", "push", "answered", "record", "advance"},
               NEW b \in Pending(d)'
        PROVE  \/ Absent(b, accepted')
               \/ /\ pc[s] \in {"answered", "record"}
                  /\ answer[s].status = "accepted" /\ b = answer[s].batch
    BY <2>1, <2>2, <2>7 DEF JudgedAt
  <2>8. pc[s] = "screen" => writes[s] \subseteq PendingAt(d)' \ sends[s]
    BY <2>4 DEF JudgedAt
  <2>9. pc[s] \in {"screen", "push", "answered", "record", "advance"} =>
          sends[s] \subseteq PendingAt(d)'
    BY <2>4 DEF JudgedAt
  <2>10. pc[s] \in {"answered", "record"} =>
           \E k \in sends[s] : First(k, sends[s]) /\ outbox'[d][k].batch = answer[s].batch
    BY <2>4, <2>5 DEF JudgedAt
  <2>11. ASSUME pc[s] = "record", answer[s].status # "accepted"
         PROVE  Absent(answer[s].batch, accepted')
    <3>1. answer[s].batch \in Pending(d) /\ Absent(answer[s].batch, accepted)
      BY <2>11 DEF JudgedAt, Pending
    <3>2. QED
      BY <2>1, <3>1
  <2>12. QED
    BY <1>1, <2>6, <2>7, <2>8, <2>9, <2>10, <2>11 DEF JudgedAt, First
<1>4. QED
  BY <1>2, <1>3

\* An engine that has not pulled, or gave up, holds nothing.
LEMMA JudgesNothing ==
  ASSUME NEW s \in Sessions, pc'[s] \in {"idle", "pull"}
  PROVE  JudgedAt(s)'
  BY DEF JudgedAt

\* What was given up stays so, and what is new to it is as nowhere as the rest.
LEMMA GivenUpStays ==
  ASSUME Inv, LogGrows, NEW d \in Devices, GivenUpForGood(d),
         \A b \in GivenUp(d) : NothingNew(b) /\ b \notin Pending(d)' /\ b \notin late',
         \A b \in GivenUp(d)' : \/ b \in GivenUp(d)
                                \/ b \notin Pending(d)' /\ b \notin late' /\ Absent(b, accepted')
  PROVE  GivenUpForGood(d)'
<1>1. ASSUME NEW b \in GivenUp(d)
      PROVE  b \notin Pending(d)' /\ b \notin late' /\ Absent(b, accepted')
  <2>1. NothingNew(b) /\ Absent(b, accepted)
    BY DEF GivenUpForGood
  <2>2. QED
    BY <2>1, NothingOfIt
<1>2. QED
  BY <1>1 DEF GivenUpForGood

\* A record of batch e.batch, for the records of other batches and other devices.
LEMMA RecordEffect ==
  ASSUME Inv, NEW d \in Devices, NEW e,
         outbox' = outbox \/ outbox' = [outbox EXCEPT ![d] = Append(@, e)]
  PROVE  /\ \A c \in Devices \ {d} : outbox'[c] = outbox[c]
         /\ \A k \in DOMAIN outbox[d] : k \in DOMAIN outbox'[d] /\ outbox'[d][k] = outbox[d][k]
         /\ \A k \in PendingAt(d) : outbox[d][k].batch.id # e.batch.id => k \in PendingAt(d)'
         /\ \A b \in GivenUp(d)' : b \in GivenUp(d) \/ (e.status \in Refusals /\ b = e.batch)
<1>1. CASE outbox' = outbox
  BY <1>1 DEF PendingAt, EntriesAt, IsEntry, GivenUp
<1>2. CASE outbox' = [outbox EXCEPT ![d] = Append(@, e)]
  <2>. DEFINE n == Len(outbox[d])
  <2>1. DOMAIN outbox = Devices /\ IsSequence(outbox[d])
    BY DEF Inv, DevicesOK, DeviceAt
  <2>2. outbox'[d] = Append(outbox[d], e) /\ \A c \in Devices \ {d} : outbox'[c] = outbox[c]
    BY <1>2, <2>1
  <2>3. /\ n \in Nat /\ DOMAIN outbox[d] = 1..n /\ DOMAIN outbox'[d] = 1..(n + 1)
        /\ \A i \in 1..n : outbox'[d][i] = outbox[d][i]
        /\ outbox'[d][n + 1] = e
    BY <2>1, <2>2, AppendSequence, SequenceDomain
  <2>. HIDE DEF n
  <2>4. \A i \in 1..(n + 1) : i \in 1..n \/ i = n + 1
    BY <2>3
  <2>5. ASSUME NEW k \in PendingAt(d), outbox[d][k].batch.id # e.batch.id
        PROVE  k \in PendingAt(d)'
    <3>1. /\ k \in 1..n /\ outbox[d][k].status = "pending"
          /\ \A j \in 1..n : j > k => outbox[d][j].batch.id # outbox[d][k].batch.id
      BY <2>3 DEF PendingAt, EntriesAt, IsEntry
    <3>2. k \in 1..(n + 1) /\ outbox'[d][k] = outbox[d][k]
      BY <2>3, <3>1
    <3>3. \A j \in 1..(n + 1) : j > k => outbox'[d][j].batch.id # outbox'[d][k].batch.id
      BY <2>3, <2>4, <2>5, <3>1, <3>2
    <3>4. QED
      BY <2>3, <3>1, <3>2, <3>3 DEF PendingAt, EntriesAt, IsEntry
  <2>6. ASSUME NEW b \in GivenUp(d)'
        PROVE  b \in GivenUp(d) \/ (e.status \in Refusals /\ b = e.batch)
    <3>1. PICK k \in DOMAIN outbox'[d] : outbox'[d][k].status \in Refusals /\ b = outbox'[d][k].batch
      BY <2>6 DEF GivenUp
    <3>2. CASE k = n + 1
      BY <2>3, <3>1, <3>2
    <3>3. CASE k \in 1..n
      BY <2>3, <3>1, <3>3 DEF GivenUp
    <3>4. QED
      BY <2>3, <2>4, <3>1, <3>2, <3>3
  <2>7. \A k \in DOMAIN outbox[d] : k \in DOMAIN outbox'[d] /\ outbox'[d][k] = outbox[d][k]
    <3>1. \A k \in 1..n : k \in 1..(n + 1)
      BY <2>3
    <3>2. QED
      BY <2>3, <3>1
  <2>8. QED
    BY <2>2, <2>5, <2>6, <2>7
<1>3. QED
  BY <1>1, <1>2
-----------------------------------------------------------------------------
\* A step of one engine, which adds no batch of another device to the log.
LEMMA OneJudges ==
  ASSUME OneEnginePerDevice, Inv, SharedInv, LogGrows, JudgedInv, NEW s \in Sessions, Others(s),
         \A d \in Devices \ {DeviceOf[s]} :
           /\ outbox'[d] = outbox[d]
           /\ \A b \in Pending(d) \cup GivenUp(d) : NothingNew(b) /\ (b \in late' => b \in late),
         GivenUpForGood(DeviceOf[s])', JudgedAt(s)'
  PROVE  JudgedInv'
<1>1. ASSUME NEW d \in Devices, d # DeviceOf[s] PROVE GivenUpForGood(d)'
  <2>1. /\ outbox'[d] = outbox[d] /\ GivenUpForGood(d)
        /\ \A b \in Pending(d) \cup GivenUp(d) : NothingNew(b) /\ (b \in late' => b \in late)
    BY <1>1 DEF JudgedInv
  <2>2. GivenUp(d)' = GivenUp(d) /\ Pending(d)' = Pending(d)
    BY <2>1 DEF GivenUp, Pending, PendingAt, EntriesAt, IsEntry
  <2>3. \A b \in GivenUp(d) : NothingNew(b) /\ b \notin Pending(d)' /\ b \notin late'
    BY <2>1, <2>2 DEF GivenUpForGood
  <2>4. QED
    BY <2>1, <2>2, <2>3, GivenUpStays
<1>2. ASSUME NEW t \in Sessions, t # s PROVE JudgedAt(t)'
  <2>. DEFINE d == DeviceOf[t]
  <2>1. d \in Devices \ {DeviceOf[s]} /\ Rests(t) /\ JudgedAt(t)
    BY <1>2, DeviceOfEngine DEF OneEnginePerDevice, JudgedInv, Others
  <2>2. outbox'[d] = outbox[d] /\ \A b \in Pending(d) : NothingNew(b)
    BY <2>1
  <2>3. DeviceKeeps(d)
    BY <2>2 DEF DeviceKeeps, Pending, PendingAt, EntriesAt, IsEntry
  <2>4. QED
    BY <2>1, <2>2, <2>3, RestsJudged
<1>3. QED
  BY <1>1, <1>2 DEF JudgedInv

\* A step of an engine that leaves the log and the outboxes alone.
LEMMA QuietlyJudges ==
  ASSUME OneEnginePerDevice, Inv, SharedInv, JudgedInv, Quietly, NEW s \in Sessions, Others(s),
         late' = late \/ (\E b \in Pending(DeviceOf[s]) : late' = late \cup {b}),
         JudgedAt(s)'
  PROVE  JudgedInv'
<1>. DEFINE d == DeviceOf[s]
<1>1. LogGrows /\ accepted' = accepted /\ d \in Devices /\ outbox' = outbox
  BY LogUnchanged, DeviceOfEngine DEF Quietly
<1>2. \A c \in Devices : GivenUp(c)' = GivenUp(c) /\ Pending(c)' = Pending(c)
  BY <1>1 DEF GivenUp, Pending, PendingAt, EntriesAt, IsEntry
<1>3. \A b : NothingNew(b)
  BY <1>1, NothingIsNew
<1>4. GivenUpForGood(d) /\ \A b \in GivenUp(d) : b \notin Pending(d) /\ b \notin late
  BY <1>1 DEF JudgedInv, GivenUpForGood
<1>5. \A b \in GivenUp(d) : b \notin late'
  BY <1>4
<1>6. GivenUpForGood(d)'
  BY <1>1, <1>2, <1>3, <1>4, <1>5, GivenUpStays
<1>7. ASSUME NEW c \in Devices \ {d}, NEW b \in Pending(c) \cup GivenUp(c), b \in late'
      PROVE  b \in late
  <2>1. b \notin Pending(d)
    BY <1>1, <1>7, DevicesApart, HeldIsWritten DEF SharedInv
  <2>2. QED
    BY <1>7, <2>1
<1>8. QED
  BY <1>1, <1>3, <1>6, <1>7, OneJudges
-----------------------------------------------------------------------------
\* The steps that leave the log and the outboxes alone.
LEMMA EndJudged ==
  ASSUME OneEnginePerDevice, Inv, SharedInv, JudgedInv, Quietly, NEW s \in Sessions, Others(s),
         NEW heard, Leave(s, heard),
         late' = late \/ (\E b \in Pending(DeviceOf[s]) : late' = late \cup {b})
  PROVE  JudgedInv'
<1>1. pc'[s] = "idle"
  BY EngineFacts DEF EnginesTyped, Leave, Goto
<1>2. QED
  BY <1>1, JudgesNothing, QuietlyJudges

LEMMA PullJudged ==
  ASSUME OneEnginePerDevice, Inv, SharedInv, SettledInv, JudgedInv, Quietly,
         NEW s \in Sessions, Others(s), Pull(s)
  PROVE  JudgedInv'
<1>. DEFINE d == DeviceOf[s]
            n == Len(accepted)
<1>1. /\ EnginesTyped /\ d \in Devices /\ seen[s] \in Nat /\ seen[s] <= n
      /\ n \in Nat /\ IsSequence(accepted)
  BY EngineFacts, EngineLimits DEF LogOK
<1>2. /\ UNCHANGED <<seen, late>> /\ pulled'[s] = Since(seen[s])
      /\ pc'[s] = IF Since(seen[s]) = <<>> THEN "preflight" ELSE "import"
  BY <1>1 DEF Pull, EnginesTyped, Goto
<1>3. accepted' = accepted /\ Pending(d)' = Pending(d)
  BY <1>1, QuietStepIsOK
<1>4. Len(Since(seen[s])) = n - seen[s]
  <2>. DEFINE m == seen[s] + 1
  <2>1. m \in Nat \ {0}
    BY <1>1
  <2>. HIDE DEF m
  <2>2. Len(SubSeq(accepted, m, n)) = IF m <= n THEN n - m + 1 ELSE 0
    BY <1>1, <2>1, SubSequence
  <2>3. QED
    BY <1>1, <2>2 DEF Since, m
<1>5. ReadTo(s)' = n
  BY <1>1, <1>2, <1>4 DEF ReadTo
<1>6. \A b : NotAfter(b, n, accepted)
  BY <1>1 DEF NotAfter
<1>7. ASSUME pc'[s] = "preflight", NEW b \in Pending(d) PROVE Absent(b, accepted)
  <2>1. Since(seen[s]) = <<>>
    BY <1>2, <1>7
  <2>2. n - seen[s] = 0
    BY <1>4, <2>1, EmptyIsSequence
  <2>3. seen[s] = n
    BY <1>1, <2>2
  <2>4. Clear(b, n, accepted)
    BY <2>3 DEF SettledInv, SettledAt, Settled
  <2>5. QED
    BY <1>1, <2>4 DEF Clear, Absent
<1>8. JudgedAt(s)'
  BY <1>2, <1>3, <1>5, <1>6, <1>7 DEF JudgedAt
<1>9. QED
  BY <1>2, <1>8, QuietlyJudges

\* The cursor is moved past what was pulled, when nothing of it is pending.
LEMMA SavePulledJudged ==
  ASSUME OneEnginePerDevice, Inv, SharedInv, SettledInv, SettledInv', JudgedInv, Quietly,
         NEW s \in Sessions, Others(s), SavePulled(s)
  PROVE  JudgedInv'
<1>. DEFINE d == DeviceOf[s]
<1>1. /\ EnginesTyped /\ d \in Devices /\ late' = late /\ pc[s] = "settle"
      /\ SaveCursor(s, ReadTo(s), "preflight")
  BY EngineFacts DEF SavePulled, SaveCursor, At, ReadTo
<1>2. CASE Leave(s, None)
  BY <1>1, <1>2, EndJudged
<1>3. CASE Goto(s, "preflight")
  <2>1. pc'[s] = "preflight" /\ seen'[s] = ReadTo(s)
    BY <1>1, <1>3 DEF Goto, EnginesTyped, SaveCursor
  <2>2. accepted' = accepted /\ Pending(d)' = Pending(d)
    BY <1>1, QuietStepIsOK
  <2>3. ASSUME NEW b \in Pending(d) PROVE Absent(b, accepted)
    <3>1. NotAfter(b, ReadTo(s), accepted)
      BY <1>1 DEF JudgedInv, JudgedAt
    <3>2. Clear(b, ReadTo(s), accepted)
      BY <2>1, <2>2 DEF SettledInv, SettledAt, Settled
    <3>3. Len(accepted) \in Nat /\ ReadTo(s) \in Nat
      BY <1>1, EngineLimits
    <3>4. \A i \in 1..Len(accepted) : i <= ReadTo(s) \/ i > ReadTo(s)
      BY <3>3
    <3>5. QED
      BY <3>1, <3>2, <3>4 DEF NotAfter, Clear, Absent
  <2>4. JudgedAt(s)'
    BY <2>1, <2>2, <2>3 DEF JudgedAt
  <2>5. QED
    BY <1>1, <2>4, QuietlyJudges
<1>4. QED
  BY <1>1, <1>2, <1>3 DEF SaveCursor

\* The other steps that write no record.
LEMMA QuietJudged ==
  ASSUME OneEnginePerDevice, Inv, SharedInv, SettledInv, JudgedInv, Quietly,
         NEW s \in Sessions, Others(s),
         \/ Start(s) \/ Import(s) \/ Reconcile(s) \/ Preflight(s) \/ Screened(s)
         \/ ImportPushed(s) \/ Advance(s) \/ Finish(s) \/ Offline(s) \/ Stop(s) \/ PushLate(s)
  PROVE  JudgedInv'
<1>. DEFINE d == DeviceOf[s]
<1>1. EnginesTyped /\ d \in Devices /\ JudgedAt(s) /\ SettledAt(s)
  BY EngineFacts DEF JudgedInv, SettledInv
<1>2. /\ accepted' = accepted /\ outbox' = outbox /\ Pending(d)' = Pending(d)
      /\ PendingAt(d)' = PendingAt(d)
  BY <1>1, QuietStepIsOK DEF Quietly
<1>3. late' = late \/ (\E b \in Pending(d) : late' = late \cup {b})
  <2>1. CASE PushLate(s)
    <3>1. PICK b \in ToSend(s) : late' = late \cup {b} /\ At(s, "push")
      BY <2>1 DEF PushLate, Sending
    <3>2. b \in Pending(d)
      BY <1>1, <3>1 DEF ToSend, JudgedAt, At, Pending
    <3>3. QED
      BY <3>1, <3>2
  <2>2. CASE ~PushLate(s)
    BY <2>2 DEF Start, Import, Reconcile, Preflight, Screened, ImportPushed, Advance,
       SaveCursor, Finish, Offline, Stop
  <2>3. QED
    BY <2>1, <2>2
<1>4. CASE \E heard : Leave(s, heard)
  BY <1>3, <1>4, EndJudged
<1>5. CASE Start(s)
  <2>1. pc'[s] = "pull"
    BY <1>1, <1>5 DEF Start, Goto, EnginesTyped
  <2>2. QED
    BY <1>3, <2>1, JudgesNothing, QuietlyJudges
<1>6. CASE Import(s) /\ ~End(s)
  <2>1. pc[s] = "import" /\ pc'[s] = "reconcile" /\ ReadTo(s)' = ReadTo(s)
    BY <1>1, <1>6 DEF Import, At, Goto, EnginesTyped, memory, ReadTo
  <2>2. JudgedAt(s)'
    BY <1>1, <1>2, <2>1 DEF JudgedAt
  <2>3. QED
    BY <1>3, <2>2, QuietlyJudges
<1>7. CASE Reconcile(s)
  <2>1. pc[s] = "reconcile" /\ pc'[s] = "settle" /\ ReadTo(s)' = ReadTo(s)
    BY <1>1, <1>7 DEF Reconcile, At, Goto, EnginesTyped, ReadTo
  <2>2. JudgedAt(s)'
    BY <1>1, <1>2, <2>1 DEF JudgedAt
  <2>3. QED
    BY <1>3, <2>2, QuietlyJudges
<1>8. CASE Preflight(s)
  <2>1. pc[s] = "preflight" /\ pc'[s] = "screen"
    BY <1>1, <1>8 DEF Preflight, At, Goto, EnginesTyped
  <2>2. sends'[s] \subseteq PendingAt(d) /\ writes'[s] = PendingAt(d) \ sends'[s]
    BY <1>1, <1>8 DEF Preflight, EnginesTyped
  <2>3. JudgedAt(s)'
    BY <1>1, <1>2, <2>1, <2>2 DEF JudgedAt
  <2>4. QED
    BY <1>3, <2>3, QuietlyJudges
<1>9. CASE Screened(s)
  <2>1. pc[s] = "screen" /\ pc'[s] = "push" /\ sends' = sends
    BY <1>1, <1>9 DEF Screened, At, Goto, EnginesTyped, memory
  <2>2. JudgedAt(s)'
    BY <1>1, <1>2, <2>1 DEF JudgedAt
  <2>3. QED
    BY <1>3, <2>2, QuietlyJudges
<1>10. CASE ImportPushed(s) /\ ~End(s)
  <2>1. pc[s] = "answered" /\ pc'[s] = "record" /\ sends' = sends /\ answer' = answer
    BY <1>1, <1>10 DEF ImportPushed, At, Goto, EnginesTyped, memory
  <2>2. answer[s].status = "accepted"
    BY <1>1, <2>1 DEF SettledAt
  <2>3. JudgedAt(s)'
    BY <1>1, <1>2, <2>1, <2>2 DEF JudgedAt
  <2>4. QED
    BY <1>3, <2>3, QuietlyJudges
<1>11. CASE Advance(s) /\ ~Leave(s, None)
  <2>1. pc[s] = "advance" /\ pc'[s] = "push" /\ sends' = sends
    BY <1>1, <1>11 DEF Advance, SaveCursor, At, Goto, EnginesTyped
  <2>2. JudgedAt(s)'
    BY <1>1, <1>2, <2>1 DEF JudgedAt
  <2>3. QED
    BY <1>3, <2>2, QuietlyJudges
<1>12. QED
  BY <1>4, <1>5, <1>6, <1>7, <1>8, <1>9, <1>10, <1>11
     DEF End, Finish, Offline, Stop, PushLate
-----------------------------------------------------------------------------
\* A record that the device writes: what it says is given up is nowhere.
LEMMA RecordJudged ==
  ASSUME OneEnginePerDevice, Inv, SharedInv, JudgedInv, NEW s \in Sessions, Others(s),
         UNCHANGED <<core, late>>, NEW e, OfKnownBatch(e, DeviceOf[s]), Update(DeviceOf[s], e),
         e.status \in Refusals => Absent(e.batch, accepted) /\ e.batch \notin late,
         e.status = "pending" => e.batch \in Pending(DeviceOf[s]),
         JudgedAt(s)'
  PROVE  JudgedInv'
<1>. DEFINE d == DeviceOf[s]
<1>1. LogGrows /\ accepted' = accepted /\ d \in Devices
  BY LogUnchanged, DeviceOfEngine
<1>2. \A b : NothingNew(b)
  BY <1>1, NothingIsNew
<1>3. outbox' = outbox \/ outbox' = [outbox EXCEPT ![d] = Append(@, e)]
  BY DEF Update
<1>4. /\ \A c \in Devices \ {d} : outbox'[c] = outbox[c]
      /\ \A b \in GivenUp(d)' : b \in GivenUp(d) \/ (e.status \in Refusals /\ b = e.batch)
  BY <1>1, <1>3, RecordEffect
<1>5. StillPending(d, e)
  BY <1>1, PendingUpdated
<1>6. ASSUME NEW b \in Pending(d)'
      PROVE  b \in Pending(d) /\ (e.status # "pending" => b.id # e.batch.id)
  <2>1. PICK k \in PendingAt(d)' : b = outbox'[d][k].batch
    BY <1>6 DEF Pending
  <2>2. \/ /\ k \in PendingAt(d) /\ outbox'[d][k] = outbox[d][k]
           /\ e.status # "pending" => outbox[d][k].batch.id # e.batch.id
        \/ outbox'[d][k] = e /\ e.status = "pending"
    BY <1>1, <1>5, <2>1 DEF StillPending
  <2>3. QED
    BY <2>1, <2>2 DEF Pending
<1>7. GivenUpForGood(d)
  BY <1>1 DEF JudgedInv
<1>8. \A b \in GivenUp(d) : NothingNew(b) /\ b \notin Pending(d)' /\ b \notin late'
  BY <1>2, <1>6, <1>7 DEF GivenUpForGood
<1>9. ASSUME e.status \in Refusals
      PROVE  e.batch \notin Pending(d)' /\ e.batch \notin late' /\ Absent(e.batch, accepted')
  BY <1>1, <1>6, <1>9 DEF Refusals
<1>10. GivenUpForGood(d)'
  BY <1>1, <1>4, <1>7, <1>8, <1>9, GivenUpStays
<1>11. QED
  BY <1>1, <1>2, <1>4, <1>10, OneJudges

LEMMA SettleJudged ==
  ASSUME OneEnginePerDevice, Inv, Inv', SharedInv, SharedInv', JudgedInv,
         NEW s \in Sessions, Others(s), Settle(s)
  PROVE  JudgedInv'
<1>. DEFINE d == DeviceOf[s]
<1>1. UNCHANGED <<core, late>> /\ pc[s] = "settle" /\ accepted' = accepted
  BY DEF Settle, SettleFirst, At, core
<1>2. CASE End(s) /\ UNCHANGED outbox
  BY <1>1, <1>2, EndJudged DEF Quietly, End
<1>3. ASSUME ~(End(s) /\ UNCHANGED outbox) PROVE JudgedInv'
  <2>1. PICK i \in writes[s] :
          /\ Update(d, Reconciled(s, outbox[d][i].batch))
          /\ UNCHANGED <<pc, seen, pulled>>
    BY <1>3 DEF Settle, SettleFirst
  <2>2. d \in Devices /\ i \in DOMAIN outbox[d] /\ JudgedAt(s)
    BY EngineFacts DEF EngineAt, JudgedInv
  <2>. DEFINE e == Reconciled(s, outbox[d][i].batch)
  <2>3. e.status = "accepted" /\ OfKnownBatch(e, d)
    BY <2>2 DEF Reconciled, Entry, OfKnownBatch
  <2>4. Update(d, e)
    BY <2>1
  <2>. HIDE DEF e
  <2>5. Pending(d)' \subseteq Pending(d)
    BY <2>2, <2>3, <2>4, PendingUpdated DEF StillPending, Pending
  <2>6. pc'[s] = "settle" /\ ReadTo(s)' = ReadTo(s)
    BY <1>1, <2>1 DEF ReadTo
  <2>7. JudgedAt(s)'
    BY <1>1, <2>2, <2>5, <2>6 DEF JudgedAt
  <2>8. QED
    BY <1>1, <2>3, <2>4, <2>7, RecordJudged DEF Refusals
<1>4. QED
  BY <1>2, <1>3

\* A preflight that refuses a batch does it after a pull, so the batch is nowhere.
LEMMA ScreenJudged ==
  ASSUME OneEnginePerDevice, Inv, Inv', SharedInv, SharedInv', JudgedInv, LateRequestsFirst,
         NEW s \in Sessions, Others(s), Screen(s)
  PROVE  JudgedInv'
<1>. DEFINE d == DeviceOf[s]
<1>1. UNCHANGED <<core, late>> /\ pc[s] = "screen" /\ accepted' = accepted
  BY DEF Screen, SettleFirst, At, core
<1>2. CASE End(s) /\ UNCHANGED outbox
  BY <1>1, <1>2, EndJudged DEF Quietly, End
<1>3. ASSUME ~(End(s) /\ UNCHANGED outbox) PROVE JudgedInv'
  <2>1. PICK i \in writes[s] :
          /\ Update(d, Entry(outbox[d][i].batch, "rejected", "preflight"))
          /\ writes' = [writes EXCEPT ![s] = @ \ {i}]
          /\ UNCHANGED <<pc, seen, pulled, sends, answer>>
    BY <1>3 DEF Screen, SettleFirst
  <2>2. /\ d \in Devices /\ JudgedAt(s) /\ EnginesTyped
        /\ i \in PendingAt(d) \ sends[s] /\ sends[s] \subseteq PendingAt(d)
        /\ writes[s] \subseteq PendingAt(d) \ sends[s]
    BY <1>1, EngineFacts DEF JudgedInv, JudgedAt
  <2>3. i \in DOMAIN outbox[d] /\ outbox[d][i].batch \in Pending(d)
    BY <2>2 DEF PendingAt, EntriesAt, Pending
  <2>. DEFINE e == Entry(outbox[d][i].batch, "rejected", "preflight")
  <2>4. e.status = "rejected" /\ OfKnownBatch(e, d) /\ e.batch = outbox[d][i].batch
    BY <2>3 DEF Entry, OfKnownBatch
  <2>5. Update(d, e)
    BY <2>1
  <2>. HIDE DEF e
  <2>6. Absent(e.batch, accepted) /\ e.batch \notin late
    BY <1>1, <2>2, <2>3, <2>4 DEF JudgedAt, LateRequestsFirst
  <2>7. ASSUME NEW k \in PendingAt(d), k # i PROVE k \in PendingAt(d)'
    <3>1. outbox[d][k].batch.id # outbox[d][i].batch.id
      BY <2>2, <2>7, OneEntry DEF PendingAt
    <3>2. outbox' = outbox \/ outbox' = [outbox EXCEPT ![d] = Append(@, e)]
      BY <2>5 DEF Update
    <3>3. QED
      BY <2>2, <2>4, <3>1, <3>2, RecordEffect
  <2>8. Pending(d)' \subseteq Pending(d)
    BY <2>2, <2>4, <2>5, PendingUpdated DEF StillPending, Pending
  <2>9. pc'[s] = "screen" /\ sends'[s] = sends[s] /\ writes'[s] = writes[s] \ {i}
    BY <1>1, <2>1, <2>2 DEF EnginesTyped
  <2>10. sends[s] \subseteq PendingAt(d)' /\ writes'[s] \subseteq PendingAt(d)' \ sends[s]
    BY <2>2, <2>7, <2>9
  <2>11. \A b \in Pending(d)' : Absent(b, accepted')
    BY <1>1, <2>2, <2>8 DEF JudgedAt
  <2>12. JudgedAt(s)'
    BY <2>9, <2>10, <2>11 DEF JudgedAt
  <2>13. QED
    BY <1>1, <2>4, <2>5, <2>6, <2>12, RecordJudged DEF Refusals
<1>4. QED
  BY <1>2, <1>3

\* A verdict is written down: Team Core refused what is nowhere.
LEMMA RecordVerdictJudged ==
  ASSUME OneEnginePerDevice, Inv, Inv', SharedInv, SharedInv', SettledInv, JudgedInv,
         LateRequestsFirst, NEW s \in Sessions, Others(s), RecordVerdict(s)
  PROVE  JudgedInv'
<1>. DEFINE d == DeviceOf[s]
            e == answer[s]
<1>1. UNCHANGED <<core, late>> /\ pc[s] = "record" /\ accepted' = accepted
  BY DEF RecordVerdict, At, core
<1>2. CASE End(s) /\ UNCHANGED outbox
  BY <1>1, <1>2, EndJudged DEF Quietly, End
<1>3. ASSUME ~(End(s) /\ UNCHANGED outbox) PROVE JudgedInv'
  <2>1. /\ Update(d, e)
        /\ \E i \in sends[s] : First(i, sends[s]) /\ sends' = [sends EXCEPT ![s] = @ \ {i}]
        /\ Goto(s, IF e.to > seen[s] THEN "advance" ELSE "push")
    BY <1>3 DEF RecordVerdict
  <2>2. PICK i \in sends[s] : First(i, sends[s]) /\ sends' = [sends EXCEPT ![s] = @ \ {i}]
    BY <2>1
  <2>3. /\ EnginesTyped /\ d \in Devices /\ JudgedAt(s) /\ SettledAt(s) /\ EngineAt(s)
        /\ IsSequence(outbox[d])
    BY EngineFacts DEF JudgedInv, SettledInv, DeviceAt
  <2>4. sends[s] \subseteq PendingAt(d) /\ PendingAt(d) \subseteq Nat
    BY <1>1, <2>3, SequenceDomain DEF JudgedAt, PendingAt, EntriesAt
  <2>5. outbox[d][i].batch = e.batch
    <3>1. PICK k \in sends[s] : First(k, sends[s]) /\ outbox[d][k].batch = e.batch
      BY <1>1, <2>3 DEF JudgedAt
    <3>2. i <= k /\ k <= i /\ i \in Nat /\ k \in Nat
      BY <2>2, <2>4, <3>1 DEF First
    <3>3. i = k
      BY <3>2
    <3>4. QED
      BY <3>1, <3>3
  <2>6. i \in PendingAt(d) /\ e.batch \in Pending(d) /\ OfKnownBatch(e, d)
    BY <2>4, <2>5 DEF Pending, PendingAt, EntriesAt, OfKnownBatch
  <2>7. e.status # "pending"
    BY <1>1, <2>3 DEF SettledAt
  <2>. HIDE DEF e
  <2>8. ASSUME e.status \in Refusals PROVE Absent(e.batch, accepted) /\ e.batch \notin late
    BY <1>1, <2>3, <2>6, <2>8 DEF JudgedAt, LateRequestsFirst, Refusals, e
  <2>9. ASSUME NEW k \in PendingAt(d), k # i PROVE k \in PendingAt(d)'
    <3>1. outbox[d][k].batch.id # e.batch.id
      BY <2>3, <2>5, <2>6, <2>9, OneEntry DEF PendingAt
    <3>2. outbox' = outbox \/ outbox' = [outbox EXCEPT ![d] = Append(@, e)]
      BY <2>1 DEF Update
    <3>3. QED
      BY <2>3, <3>1, <3>2, RecordEffect
  <2>10. ASSUME NEW b \in Pending(d)' PROVE Absent(b, accepted')
    <3>1. b \in Pending(d) /\ b.id # e.batch.id
      BY <2>1, <2>3, <2>7, PendingUpdated DEF StillPending, Pending
    <3>2. b # e.batch
      BY <3>1
    <3>3. QED
      BY <1>1, <2>3, <3>1, <3>2 DEF JudgedAt, e
  <2>11. sends'[s] = sends[s] \ {i} /\ pc'[s] \in {"push", "advance"}
    BY <2>1, <2>2, <2>3 DEF EnginesTyped, Goto
  <2>12. sends'[s] \subseteq PendingAt(d)'
    BY <2>4, <2>9, <2>11
  <2>13. JudgedAt(s)'
    BY <2>10, <2>11, <2>12 DEF JudgedAt
  <2>14. QED
    BY <1>1, <2>1, <2>6, <2>7, <2>8, <2>13, RecordJudged
<1>4. QED
  BY <1>2, <1>3

LEMMA PushStaleJudged ==
  ASSUME OneEnginePerDevice, Inv, Inv', SharedInv, SharedInv', JudgedInv,
         NEW s \in Sessions, Others(s), PushStale(s)
  PROVE  JudgedInv'
<1>. DEFINE d == DeviceOf[s]
<1>1. UNCHANGED <<core, late>> /\ End(s)
  BY DEF PushStale
<1>2. PICK b \in ToSend(s) :
        /\ Update(d, Entry(b, "pending", "stale"))
        /\ \E i \in PendingAt(d) : outbox[d][i].batch = b
  BY DEF PushStale
<1>. DEFINE e == Entry(b, "pending", "stale")
<1>3. e.status = "pending" /\ e.batch \in Pending(d) /\ OfKnownBatch(e, d)
  BY <1>2 DEF Entry, Pending, PendingAt, EntriesAt, OfKnownBatch
<1>4. Update(d, e)
  BY <1>2
<1>. HIDE DEF e
<1>5. pc'[s] = "idle"
  BY <1>1, EngineFacts DEF EnginesTyped, End, Leave, Goto
<1>6. JudgedAt(s)'
  BY <1>5, JudgesNothing
<1>7. QED
  BY <1>1, <1>3, <1>4, <1>6, RecordJudged DEF Refusals
-----------------------------------------------------------------------------
\* A push: the batch was pending, and of no other batch something is appended.
LEMMA PushJudged ==
  ASSUME OneEnginePerDevice, Inv, SharedInv, JudgedInv,
         NEW s \in Sessions, Others(s), Push(s) \/ PushUnheard(s)
  PROVE  JudgedInv'
<1>. DEFINE d == DeviceOf[s]
<1>1. EnginesTyped /\ EngineAt(s) /\ JudgedAt(s) /\ d \in Devices
  BY EngineFacts DEF JudgedInv
<1>2. UNCHANGED <<outbox, late>>
  BY DEF Push, PushUnheard, device
<1>3. PICK b \in ToSend(s) :
        /\ Sending(s, b) /\ Perform(Verdict(b))
        /\ End(s) \/ Hear(s, b, Verdict(b))
  BY DEF Push, PushUnheard
<1>4. PICK i \in sends[s] : First(i, sends[s]) /\ b = outbox[d][i].batch
  BY <1>3 DEF Sending
<1>5. pc[s] = "push" /\ sends[s] \subseteq PendingAt(d)
  BY <1>1, <1>3 DEF Sending, At, JudgedAt
<1>6. i \in DOMAIN outbox[d] /\ b \in Pending(d) /\ b \in Written
  BY <1>1, <1>4, <1>5, HeldIsWritten DEF Pending
<1>7. LogGrows
  BY <1>3, SentBatch, PerformVerdict
<1>8. \A c \in Devices : /\ Pending(c)' = Pending(c) /\ GivenUp(c)' = GivenUp(c)
                         /\ PendingAt(c)' = PendingAt(c)
  BY <1>2 DEF Pending, PendingAt, EntriesAt, IsEntry, GivenUp
<1>. DEFINE v == Verdict(b)
            verdict == [Entry(b, v.status, "pushed") EXCEPT !.from = v.from, !.to = v.to]
<1>9. ASSUME NEW a \in Written, a # b \/ v.status # "accepted" PROVE NothingNew(a)
  BY <1>2, <1>3, <1>6, <1>9, NewOfVerdict
<1>10. Hear(s, b, v) \/ End(s)
  BY <1>3
<1>. HIDE DEF v
<1>11. verdict.status = v.status /\ verdict.batch = b
  BY DEF Entry
<1>12. Hear(s, b, v) =>
        \/ \E heard : Leave(s, heard)
        \/ /\ answer' = [answer EXCEPT ![s] = verdict] /\ UNCHANGED sends
           /\ \/ v.status = "accepted" /\ Goto(s, "answered")
              \/ v.status \in {"rejected", "conflict"} /\ Goto(s, "record")
  BY DEF Hear, End, verdict
<1>. HIDE DEF verdict
<1>13. ASSUME NEW a \in Pending(d), a # b \/ v.status # "accepted" PROVE Absent(a, accepted')
  <2>1. Absent(a, accepted) /\ a \in Written
    BY <1>1, <1>5, HeldIsWritten DEF JudgedAt
  <2>2. QED
    BY <1>7, <1>9, <1>13, <2>1, NothingOfIt
<1>14. JudgedAt(s)'
  <2>1. CASE \E heard : Leave(s, heard)
    <3>1. pc'[s] = "idle"
      BY <1>1, <2>1 DEF Leave, Goto, EnginesTyped
    <3>2. QED
      BY <3>1, JudgesNothing
  <2>2. CASE /\ answer' = [answer EXCEPT ![s] = verdict] /\ UNCHANGED sends
             /\ \/ v.status = "accepted" /\ Goto(s, "answered")
                \/ v.status \in {"rejected", "conflict"} /\ Goto(s, "record")
    <3>1. answer'[s] = verdict /\ sends'[s] = sends[s] /\ outbox' = outbox
      BY <1>1, <1>2, <2>2 DEF EnginesTyped
    <3>2. \/ v.status = "accepted" /\ pc'[s] = "answered"
          \/ v.status \in {"rejected", "conflict"} /\ pc'[s] = "record"
      BY <1>1, <2>2 DEF Goto, EnginesTyped
    <3>3. \E k \in sends[s] : First(k, sends[s]) /\ outbox[d][k].batch = verdict.batch
      BY <1>4, <1>11
    <3>4. \A a \in Pending(d) : \/ Absent(a, accepted')
                                \/ v.status = "accepted" /\ a = verdict.batch
      BY <1>11, <1>13
    <3>5. v.status # "accepted" => Absent(verdict.batch, accepted')
      BY <1>6, <1>11, <1>13
    <3>6. answer'[s].status = v.status /\ answer'[s].batch = verdict.batch
      BY <1>11, <3>1
    <3>7. \A a \in Pending(d)' : \/ Absent(a, accepted')
                                 \/ answer'[s].status = "accepted" /\ a = answer'[s].batch
      BY <1>1, <1>8, <3>4, <3>6
    <3>8. sends'[s] \subseteq PendingAt(d)'
      BY <1>1, <1>5, <1>8, <3>1
    <3>9. \E k \in sends'[s] : First(k, sends'[s]) /\ outbox'[d][k].batch = answer'[s].batch
      BY <3>1, <3>3, <3>6
    <3>10. answer'[s].status # "accepted" => Absent(answer'[s].batch, accepted')
      BY <3>5, <3>6
    <3>11. pc'[s] \in {"answered", "record"} /\ (pc'[s] = "answered" => answer'[s].status = "accepted")
      BY <3>2, <3>6
    <3>12. QED
      BY <3>7, <3>8, <3>9, <3>10, <3>11 DEF JudgedAt
  <2>3. QED
    BY <1>10, <1>12, <2>1, <2>2 DEF End
<1>15. GivenUpForGood(d)'
  <2>1. GivenUpForGood(d) /\ b \notin GivenUp(d)
    BY <1>1, <1>6 DEF JudgedInv, GivenUpForGood
  <2>2. \A a \in GivenUp(d) : NothingNew(a) /\ a \notin Pending(d)' /\ a \notin late'
    BY <1>1, <1>2, <1>8, <1>9, <2>1, HeldIsWritten DEF GivenUpForGood
  <2>3. QED
    BY <1>1, <1>7, <1>8, <2>1, <2>2, GivenUpStays
<1>16. ASSUME NEW c \in Devices \ {d}, NEW a \in Pending(c) \cup GivenUp(c)
       PROVE  NothingNew(a)
  <2>1. a \in Written /\ a # b
    BY <1>1, <1>4, <1>6, <1>16, DevicesApart, HeldIsWritten DEF SharedInv
  <2>2. QED
    BY <1>9, <2>1
<1>17. QED
  BY <1>2, <1>7, <1>14, <1>15, <1>16, OneJudges

\* A step that only adds to the log.
LEMMA ServedJudges ==
  ASSUME Inv, LogGrows, JudgedInv, UNCHANGED <<outbox, engine>>, late' \subseteq late,
         \A d \in Devices : \A b \in GivenUp(d) : NothingNew(b),
         \A s \in Sessions : pc[s] # "idle" => \A b \in Pending(DeviceOf[s]) : NothingNew(b)
  PROVE  JudgedInv'
<1>1. \A d \in Devices : /\ Pending(d)' = Pending(d) /\ GivenUp(d)' = GivenUp(d)
                         /\ DeviceKeeps(d)
  BY DEF Pending, PendingAt, EntriesAt, IsEntry, GivenUp, DeviceKeeps
<1>2. ASSUME NEW d \in Devices PROVE GivenUpForGood(d)'
  <2>1. GivenUpForGood(d)
    BY DEF JudgedInv
  <2>2. \A b \in GivenUp(d) : NothingNew(b) /\ b \notin Pending(d)' /\ b \notin late'
    BY <1>1, <2>1 DEF GivenUpForGood
  <2>3. QED
    BY <1>1, <2>1, <2>2, GivenUpStays
<1>3. ASSUME NEW s \in Sessions PROVE JudgedAt(s)'
  <2>1. Rests(s) /\ JudgedAt(s) /\ DeviceOf[s] \in Devices
    BY DeviceOfEngine DEF engine, memory, Rests, JudgedInv
  <2>2. QED
    BY <1>1, <2>1, RestsJudged
<1>4. QED
  BY <1>2, <1>3 DEF JudgedInv

\* A request that outlived its client: its device has given up nothing of it, and
\* has not begun another attempt.
LEMMA ServedJudged ==
  ASSUME Inv, Inv', SharedInv, JudgedInv, LateRequestsFirst,
         DeliverLate \/ Service \/ UNCHANGED vars
  PROVE  JudgedInv'
<1>1. CASE DeliverLate
  <2>1. PICK b \in late : Perform(Verdict(b)) /\ late' = late \ {b}
    BY <1>1 DEF DeliverLate
  <2>2. UNCHANGED <<outbox, engine>>
    BY <1>1 DEF DeliverLate, device
  <2>3. LogGrows /\ b \in Written
    BY <2>1, PerformVerdict DEF Inv, LateOK, SharedInv, NamesInv
  <2>4. \A a \in Written : a # b => NothingNew(a)
    BY <2>1, <2>2, <2>3, NewOfVerdict
  <2>5. \A d \in Devices : \A a \in GivenUp(d) : NothingNew(a)
    BY <2>1, <2>4, HeldIsWritten DEF JudgedInv, GivenUpForGood
  <2>6. \A s \in Sessions : pc[s] # "idle" => \A a \in Pending(DeviceOf[s]) : NothingNew(a)
    BY <2>1, <2>4, HeldIsWritten, DeviceOfEngine DEF LateRequestsFirst
  <2>7. late' \subseteq late
    BY <2>1
  <2>8. QED
    BY <2>2, <2>3, <2>5, <2>6, <2>7, ServedJudges
<1>2. CASE Service \/ UNCHANGED vars
  <2>1. UNCHANGED <<accepted, outbox, engine, late>>
    BY <1>2 DEF Service, Restart, Crash, Tick, Facts, vars, core, device, Inv, LogOK
  <2>2. LogGrows
    BY <2>1, PrefixReflexive DEF LogGrows, Inv, LogOK
  <2>3. \A b : NothingNew(b)
    BY <2>1, NothingIsNew
  <2>4. QED
    BY <2>1, <2>2, <2>3, ServedJudges
<1>3. QED
  BY <1>1, <1>2

\* A batch that the device writes is new: it is nowhere, and not given up.
LEMMA LocalAppendJudged ==
  ASSUME Inv, FunctionsOK, SharedInv, JudgedInv, NEW d \in Devices, LocalAppend(d)
  PROVE  JudgedInv'
<1>. DEFINE b == NextBatch(d)
            e == Entry(b, "pending", "written")
<1>1. /\ outbox' = [outbox EXCEPT ![d] = Append(@, e)]
      /\ UNCHANGED <<core, engine, late>>
  BY DEF LocalAppend
<1>2. LogGrows /\ accepted' = accepted
  BY <1>1, LogUnchanged
<1>3. Absent(b, accepted) /\ \A a \in Written : a.id # b.id
  BY NextBatchIsNew
<1>4. e.batch = b /\ e.status = "pending"
  BY DEF Entry
<1>. HIDE DEF b, e
<1>5. StillPending(d, e)
  BY <1>1, PendingAppended
<1>6. /\ \A c \in Devices \ {d} : outbox'[c] = outbox[c]
      /\ \A k \in DOMAIN outbox[d] : k \in DOMAIN outbox'[d] /\ outbox'[d][k] = outbox[d][k]
      /\ \A k \in PendingAt(d) : outbox[d][k].batch.id # e.batch.id => k \in PendingAt(d)'
      /\ \A a \in GivenUp(d)' : a \in GivenUp(d) \/ (e.status \in Refusals /\ a = e.batch)
  BY <1>1, RecordEffect
<1>7. \A a : NothingNew(a)
  BY <1>2, NothingIsNew
<1>8. \A c \in Devices : \A a \in Pending(c)' : a \in Pending(c) \/ a = b
  BY <1>4, <1>5 DEF StillPending, Pending
<1>9. GivenUp(d)' \subseteq GivenUp(d)
  BY <1>4, <1>6 DEF Refusals
<1>10. ASSUME NEW c \in Devices \ {d} PROVE GivenUp(c)' = GivenUp(c)
  BY <1>6 DEF GivenUp
<1>11. ASSUME NEW c \in Devices PROVE GivenUpForGood(c)'
  <2>1. GivenUpForGood(c) /\ GivenUp(c)' \subseteq GivenUp(c)
    BY <1>9, <1>10 DEF JudgedInv
  <2>2. \A a \in GivenUp(c) : a # b
    BY <1>3, HeldIsWritten
  <2>3. \A a \in GivenUp(c) : NothingNew(a) /\ a \notin Pending(c)' /\ a \notin late'
    BY <1>1, <1>7, <1>8, <2>1, <2>2 DEF GivenUpForGood
  <2>4. QED
    BY <1>2, <2>1, <2>3, GivenUpStays
<1>12. ASSUME NEW c \in Devices PROVE DeviceKeeps(c)
  <2>1. \A a \in Pending(c)' : a \in Pending(c) \/ Absent(a, accepted')
    BY <1>2, <1>3, <1>8
  <2>2. CASE c # d
    BY <1>6, <2>1, <2>2 DEF DeviceKeeps, PendingAt, EntriesAt, IsEntry
  <2>3. CASE c = d
    <3>1. \A k \in PendingAt(d) : outbox[d][k].batch \in Written
      BY HeldIsWritten DEF Written
    <3>2. PendingAt(d) \subseteq PendingAt(d)'
      BY <1>3, <1>4, <1>6, <3>1
    <3>3. QED
      BY <1>6, <2>1, <2>3, <3>2 DEF DeviceKeeps
  <2>4. QED
    BY <2>2, <2>3
<1>13. ASSUME NEW s \in Sessions PROVE JudgedAt(s)'
  <2>1. Rests(s) /\ JudgedAt(s) /\ DeviceOf[s] \in Devices
    BY <1>1, DeviceOfEngine DEF engine, memory, Rests, JudgedInv
  <2>2. QED
    BY <1>2, <1>7, <1>12, <2>1, RestsJudged
<1>14. QED
  BY <1>11, <1>13 DEF JudgedInv
-----------------------------------------------------------------------------
LEMMA JudgedInitially ==
  ASSUME Init
  PROVE  JudgedInv
<1>1. \A d \in Devices : outbox[d] = <<>> /\ DOMAIN outbox[d] = {}
  BY DEF Init
<1>2. \A d \in Devices : GivenUp(d) = {}
  BY <1>1 DEF GivenUp
<1>3. \A s \in Sessions : pc[s] = "idle"
  BY DEF Init
<1>4. QED
  BY <1>2, <1>3 DEF JudgedInv, JudgedAt, GivenUpForGood

LEMMA JudgedStep ==
  ASSUME OneEnginePerDevice, Inv, Inv', FunctionsOK, SharedInv, SharedInv',
         SettledInv, SettledInv', JudgedInv, LateRequestsFirst, [Next]_vars
  PROVE  JudgedInv'
<1>1. ASSUME NEW s \in Sessions,
             Attempt(s) \/ PushUnheard(s) \/ PushLate(s) \/ PushStale(s) \/ Stop(s)
      PROVE  JudgedInv'
  <2>1. Others(s)
    BY <1>1, OthersRest DEF Others, Inv, EnginesOK
  <2>2. CASE \/ Start(s) \/ Pull(s) \/ Import(s) \/ Reconcile(s) \/ SavePulled(s) \/ Preflight(s)
             \/ Screened(s) \/ ImportPushed(s) \/ Advance(s) \/ Finish(s) \/ Offline(s)
             \/ Stop(s) \/ PushLate(s)
    <3>1. Quietly
      BY <2>2 DEF Quietly, Start, Pull, Import, Reconcile, SavePulled, SaveCursor, Preflight,
         Screened, ImportPushed, Advance, Finish, Offline, Stop, PushLate, device
    <3>2. QED
      BY <2>1, <2>2, <3>1, PullJudged, SavePulledJudged, QuietJudged
  <2>3. QED
    BY <1>1, <2>1, <2>2, SettleJudged, ScreenJudged, RecordVerdictJudged, PushStaleJudged,
       PushJudged DEF Attempt
<1>2. ASSUME NEW d \in Devices, LocalAppend(d) PROVE JudgedInv'
  BY <1>2, LocalAppendJudged
<1>3. QED
  BY <1>1, <1>2, ServedJudged DEF Next

(***************************************************************************)
(* An entry that the outbox gives up on, refused by its preflight or by    *)
(* Team Core, was not accepted and never will be, when every device has    *)
(* one engine and a request that outlived its client is handled before the *)
(* next attempt (engine.go preflightPending, recordPushResult).            *)
(***************************************************************************)
THEOREM RejectionsAreTrue ==
  OneEnginePerDevice => (Spec /\ []LateRequestsFirst => []RejectedIsNotAccepted)
<1>. SUFFICES ASSUME OneEnginePerDevice
              PROVE  Spec /\ []LateRequestsFirst => []RejectedIsNotAccepted
  OBVIOUS
<1>. DEFINE All == Inv /\ FunctionsOK /\ SharedInv /\ SettledInv /\ JudgedInv
<1>1. Init => All
  BY InvInitially, SharedInitially, SettledInitially, JudgedInitially
<1>2. All /\ LateRequestsFirst /\ [Next]_vars => All'
  <2>1. SUFFICES ASSUME Inv, FunctionsOK, SharedInv, SettledInv, JudgedInv,
                        LateRequestsFirst, [Next]_vars
                 PROVE  (Inv /\ FunctionsOK /\ SharedInv /\ SettledInv /\ JudgedInv)'
    OBVIOUS
  <2>2. Inv' /\ FunctionsOK'
    BY <2>1, InvStep, FunctionsStep
  <2>3. SharedInv'
    BY <2>1, <2>2, SharedStep
  <2>4. SettledInv'
    BY <2>1, <2>2, <2>3, SettledStep
  <2>5. JudgedInv'
    BY <2>1, <2>2, <2>3, <2>4, JudgedStep
  <2>6. QED
    BY <2>2, <2>3, <2>4, <2>5
<1>3. All => RejectedIsNotAccepted
  <2>. SUFFICES ASSUME Inv, JudgedInv, NEW d \in Devices, NEW e \in Entries(d),
                       e.status \in {"rejected", "conflict"}, NEW i \in DOMAIN accepted
                PROVE  accepted[i].batch # e.batch.id
    BY DEF RejectedIsNotAccepted
  <2>1. i \in 1..Len(accepted)
    BY SequenceDomain DEF Inv, LogOK
  <2>2. e.batch \in GivenUp(d)
    BY DEF Entries, EntriesAt, GivenUp, Refusals
  <2>3. Absent(e.batch, accepted)
    BY <2>2 DEF JudgedInv, GivenUpForGood
  <2>4. QED
    BY <2>1, <2>3 DEF Absent, IsOf
<1>. HIDE DEF All
<1>4. QED
  BY <1>1, <1>2, <1>3, PTL DEF Spec
=============================================================================
