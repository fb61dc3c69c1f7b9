--------------------------- MODULE TeamSyncProofs ---------------------------
(***************************************************************************)
(* For every number of devices and engines, every work and every bound: a  *)
(* replica is a prefix of the accepted log, and no cursor passes it.       *)
(*                                                                         *)
(* The argument: an engine only imports ranges of the accepted log, the    *)
(* accepted log only grows at its end, and so a range stays what it was    *)
(* when it was pulled or answered.  What an engine holds at each label     *)
(* (EngineAt) is the part of the invariant that makes it inductive.        *)
(***************************************************************************)
EXTENDS TeamSync, TeamCoreProofs

\* The log, and what the devices and the requests on their way hold.
LogOK == IsSequence(accepted) /\ accepted # <<>> /\ mode \in Modes

RecordOK(e) == IsSequence(e.batch.events) /\ e.status \in Statuses

DeviceAt(d) ==
  /\ IsSequence(local[d]) /\ IsPrefix(local[d], accepted)
  /\ IsSequence(outbox[d])
  /\ \A i \in DOMAIN outbox[d] : RecordOK(outbox[d][i])
  /\ cursor[d] \in Nat /\ cursor[d] <= Len(local[d])

DevicesOK ==
  /\ DOMAIN local = Devices /\ DOMAIN outbox = Devices /\ DOMAIN cursor = Devices
  /\ \A d \in Devices : DeviceAt(d)

LateOK == \A batch \in late : IsSequence(batch.events)

\* The events are those of the log after its first n.
FromLog(events, n) ==
  /\ IsSequence(events) /\ n + Len(events) <= Len(accepted)
  /\ events = SubSeq(accepted, n + 1, n + Len(events))

\* What an engine holds: of the log before an import, of the replica after.
EngineAt(s) ==
  LET replica == local[DeviceOf[s]]
      records == DOMAIN outbox[DeviceOf[s]]
  IN /\ pc[s] \in Labels
     /\ seen[s] \in Nat /\ seen[s] <= Len(replica)
     /\ writes[s] \subseteq records /\ sends[s] \subseteq records
     /\ pc[s] = "import" => FromLog(pulled[s], seen[s])
     /\ pc[s] \in {"reconcile", "settle"} =>
          IsSequence(pulled[s]) /\ seen[s] + Len(pulled[s]) <= Len(replica)
     /\ pc[s] = "answered" =>
          RecordOK(answer[s]) /\ Bounded(answer[s], Len(accepted))
     /\ pc[s] \in {"record", "advance"} =>
          RecordOK(answer[s]) /\ Bounded(answer[s], Len(replica))

EnginesTyped ==
  /\ DOMAIN pc = Sessions /\ DOMAIN seen = Sessions /\ DOMAIN pulled = Sessions
  /\ DOMAIN writes = Sessions /\ DOMAIN sends = Sessions /\ DOMAIN answer = Sessions

EnginesOK == EnginesTyped /\ \A s \in Sessions : EngineAt(s)

\* How far a device is with its work, and that the rest are functions; apart
\* from Inv, because this much needs nothing else to be inductive.
IsFunction(f) == f = [x \in DOMAIN f |-> f[x]]

FunctionsOK ==
  /\ written \in [Devices -> Nat]
  /\ IsFunction(pc) /\ IsFunction(seen) /\ IsFunction(cursor)

Inv ==
  /\ LogOK /\ DevicesOK /\ LateOK /\ EnginesOK
  /\ stops \in 0..MaxStops
-----------------------------------------------------------------------------
(***************************************************************************)
(* What every step does: the log, the replicas and the outboxes grow.      *)
(***************************************************************************)
Grows ==
  /\ LogGrows
  /\ \A d \in Devices : /\ Len(local[d]) <= Len(local'[d])
                        /\ DOMAIN outbox[d] \subseteq DOMAIN outbox'[d]

\* An engine that did not move.
Rests(s) ==
  /\ pc'[s] = pc[s] /\ seen'[s] = seen[s] /\ pulled'[s] = pulled[s]
  /\ writes'[s] = writes[s] /\ sends'[s] = sends[s] /\ answer'[s] = answer[s]

LEMMA LengthsAreNatural ==
  ASSUME Inv
  PROVE  /\ Len(accepted) \in Nat
         /\ \A d \in Devices : /\ Len(local[d]) \in Nat
                               /\ Len(local[d]) <= Len(accepted)
<1>1. IsSequence(accepted)
  BY DEF Inv, LogOK
<1>2. ASSUME NEW d \in Devices
      PROVE  Len(local[d]) \in Nat /\ Len(local[d]) <= Len(accepted)
  <2>1. IsSequence(local[d]) /\ IsPrefix(local[d], accepted)
    BY DEF Inv, DevicesOK, DeviceAt
  <2>2. QED
    BY <1>1, <2>1, SequenceDomain, PrefixByIndex
<1>3. QED
  BY <1>1, <1>2, SequenceDomain

LEMMA DeviceOfEngine ==
  ASSUME NEW s \in Sessions
  PROVE  DeviceOf[s] \in Devices
  BY SyncAssumption

\* Whatever the others do, an engine that rests keeps its part.
LEMMA RestingEngine ==
  ASSUME Inv, Grows, NEW s \in Sessions, Rests(s),
         \A d \in Devices : IsSequence(local'[d])
  PROVE  EngineAt(s)'
<1>. DEFINE d == DeviceOf[s]
<1>1. d \in Devices
  BY DeviceOfEngine
<1>2. EngineAt(s)
  BY DEF Inv, EnginesOK
<1>3. /\ Len(local[d]) \in Nat /\ Len(local'[d]) \in Nat
      /\ Len(local[d]) <= Len(local'[d])
      /\ DOMAIN outbox[d] \subseteq DOMAIN outbox'[d]
  BY <1>1, LengthsAreNatural, SequenceDomain DEF Grows
<1>4. /\ IsSequence(accepted) /\ IsSequence(accepted')
      /\ IsPrefix(accepted, accepted')
  BY DEF Inv, LogOK, Grows, LogGrows
<1>5. /\ Len(accepted) \in Nat /\ Len(accepted') \in Nat
      /\ Len(accepted) <= Len(accepted')
  BY <1>4, SequenceDomain, PrefixByIndex
<1>6. ASSUME pc[s] = "import", pulled'[s] = pulled[s], seen'[s] = seen[s]
      PROVE  FromLog(pulled[s], seen[s])'
  <2>1. /\ seen[s] \in Nat /\ Len(pulled[s]) \in Nat
        /\ seen[s] + Len(pulled[s]) <= Len(accepted)
        /\ pulled[s] = SubSeq(accepted, seen[s] + 1, seen[s] + Len(pulled[s]))
    BY <1>2, <1>6, SequenceDomain DEF EngineAt, FromLog
  <2>2. seen[s] + 1 \in Nat \ {0} /\ seen[s] + Len(pulled[s]) \in Nat
    BY <2>1
  <2>3. SubSeq(accepted, seen[s] + 1, seen[s] + Len(pulled[s]))
          = SubSeq(accepted', seen[s] + 1, seen[s] + Len(pulled[s]))
    <3>. DEFINE from == seen[s] + 1
                to == seen[s] + Len(pulled[s])
    <3>1. from \in Nat \ {0} /\ to \in Nat /\ to <= Len(accepted)
      BY <2>1, <2>2
    <3>. HIDE DEF from, to
    <3>2. SubSeq(accepted, from, to) = SubSeq(accepted', from, to)
      BY <1>4, <3>1, PrefixKeepsRange
    <3>3. QED
      BY <3>2 DEF from, to
  <2>4. seen[s] + Len(pulled[s]) <= Len(accepted')
    BY <1>5, <2>1
  <2>5. IsSequence(pulled[s])
    BY <1>2, <1>6 DEF EngineAt, FromLog
  <2>6. QED
    BY <1>6, <2>1, <2>3, <2>4, <2>5, Zenon DEF FromLog
<1>7. ASSUME pc[s] \in {"reconcile", "settle"}
      PROVE  seen[s] + Len(pulled[s]) <= Len(local'[d])
  <2>1. /\ seen[s] \in Nat /\ Len(pulled[s]) \in Nat
        /\ seen[s] + Len(pulled[s]) <= Len(local[d])
    BY <1>2, <1>7, SequenceDomain DEF EngineAt
  <2>2. QED
    BY <1>3, <2>1
<1>8. pc[s] = "answered" => Bounded(answer[s], Len(accepted'))
  BY <1>2, <1>5 DEF EngineAt, Bounded
<1>9. pc[s] \in {"record", "advance"} => Bounded(answer[s], Len(local'[d]))
  BY <1>2, <1>3 DEF EngineAt, Bounded
<1>10. seen[s] <= Len(local'[d])
  BY <1>2, <1>3 DEF EngineAt
<1>11. QED
  BY <1>2, <1>3, <1>6, <1>7, <1>8, <1>9, <1>10
     DEF EngineAt, Rests, RecordOK, Bounded

LEMMA EngineMoves ==
  ASSUME Inv, Grows, DevicesOK', EnginesTyped', NEW s \in Sessions,
         EngineAt(s)', \A t \in Sessions \ {s} : Rests(t)
  PROVE  EnginesOK'
<1>1. \A d \in Devices : IsSequence(local'[d])
  BY DEF DevicesOK, DeviceAt
<1>2. \A t \in Sessions \ {s} : EngineAt(t)'
  BY <1>1, RestingEngine
<1>3. QED
  BY <1>2 DEF EnginesOK

LEMMA EnginesRest ==
  ASSUME Inv, Grows, DevicesOK', UNCHANGED engine
  PROVE  EnginesOK'
<1>1. \A d \in Devices : IsSequence(local'[d])
  BY DEF DevicesOK, DeviceAt
<1>2. \A s \in Sessions : Rests(s)
  BY DEF engine, memory, Rests
<1>3. EnginesTyped'
  BY DEF Inv, EnginesOK, EnginesTyped, engine, memory
<1>4. QED
  BY <1>1, <1>2, <1>3, RestingEngine DEF EnginesOK

\* Ending an attempt, with a cursor in memory that is not beyond the replica.
LEMMA EngineLeaves ==
  ASSUME Inv, Grows, DevicesOK', NEW s \in Sessions, NEW heard,
         Leave(s, heard), NEW n \in Nat, n <= Len(local'[DeviceOf[s]]),
         seen' = seen \/ seen' = [seen EXCEPT ![s] = n]
  PROVE  EnginesOK'
<1>. DEFINE d == DeviceOf[s]
<1>1. EnginesTyped /\ EngineAt(s)
  BY DEF Inv, EnginesOK
<1>2. EnginesTyped'
  BY <1>1 DEF EnginesTyped, Leave, Goto
<1>3. \A t \in Sessions \ {s} : Rests(t)
  BY <1>1 DEF EnginesTyped, Leave, Goto, Rests
<1>4. pc'[s] = "idle" /\ writes'[s] = {} /\ sends'[s] = {}
  BY <1>1 DEF EnginesTyped, Leave, Goto
<1>5. seen'[s] \in Nat /\ seen'[s] <= Len(local'[d])
  <2>1. Len(local[d]) \in Nat /\ Len(local'[d]) \in Nat
        /\ Len(local[d]) <= Len(local'[d])
    BY DeviceOfEngine, LengthsAreNatural, SequenceDomain
       DEF Grows, DevicesOK, DeviceAt
  <2>2. seen[s] \in Nat /\ seen[s] <= Len(local[d])
    BY <1>1 DEF EngineAt
  <2>3. seen'[s] = seen[s] \/ seen'[s] = n
    BY <1>1 DEF EnginesTyped
  <2>4. QED
    BY <2>1, <2>2, <2>3
<1>6. EngineAt(s)'
  BY <1>4, <1>5 DEF EngineAt, Labels
<1>7. QED
  BY <1>2, <1>3, <1>6, EngineMoves

LEMMA EngineEnds ==
  ASSUME Inv, Grows, DevicesOK', NEW s \in Sessions, End(s)
  PROVE  EnginesOK'
<1>1. IsSequence(local'[DeviceOf[s]])
  BY DeviceOfEngine DEF DevicesOK, DeviceAt
<1>2. 0 <= Len(local'[DeviceOf[s]])
  BY <1>1, SequenceDomain
<1>3. QED
  BY <1>2, EngineLeaves DEF End
-----------------------------------------------------------------------------
(***************************************************************************)
(* The devices, when the log grew, a record was added, a range imported,   *)
(* or a cursor saved.                                                      *)
(***************************************************************************)
LEMMA LogUnchanged ==
  ASSUME Inv, UNCHANGED core
  PROVE  LogGrows /\ accepted' = accepted
  BY PrefixReflexive DEF Inv, LogOK, LogGrows, core

LEMMA RestingDevice ==
  ASSUME Inv, LogGrows, NEW d \in Devices, local'[d] = local[d],
         outbox'[d] = outbox[d], cursor'[d] = cursor[d]
  PROVE  DeviceAt(d)'
<1>1. DeviceAt(d) /\ IsSequence(accepted)
  BY DEF Inv, LogOK, DevicesOK
<1>2. IsPrefix(local[d], accepted')
  BY <1>1, PrefixTransitive DEF DeviceAt, LogGrows
<1>3. QED
  BY <1>1, <1>2 DEF DeviceAt

LEMMA DevicesRest ==
  ASSUME Inv, LogGrows, UNCHANGED <<local, outbox, cursor>>
  PROVE  DevicesOK' /\ Grows
<1>1. \A d \in Devices : DeviceAt(d)'
  BY RestingDevice
<1>2. DevicesOK'
  BY <1>1 DEF Inv, DevicesOK
<1>3. Grows
  BY LengthsAreNatural DEF Grows
<1>4. QED
  BY <1>2, <1>3

LEMMA RecordAdded ==
  ASSUME Inv, LogGrows, UNCHANGED <<local, cursor>>,
         NEW d \in Devices, NEW e, RecordOK(e),
         outbox' = outbox \/ outbox' = [outbox EXCEPT ![d] = Append(@, e)]
  PROVE  DevicesOK' /\ Grows
<1>1. CASE outbox' = outbox
  BY <1>1, DevicesRest
<1>2. CASE outbox' = [outbox EXCEPT ![d] = Append(@, e)]
  <2>1. DOMAIN outbox = Devices /\ DeviceAt(d)
    BY DEF Inv, DevicesOK
  <2>2. IsSequence(outbox[d])
    BY <2>1 DEF DeviceAt
  <2>3. outbox'[d] = Append(outbox[d], e)
    BY <1>2, <2>1
  <2>4. \A c \in Devices \ {d} : outbox'[c] = outbox[c]
    BY <1>2, <2>1
  <2>5. /\ IsSequence(outbox'[d])
        /\ Len(outbox[d]) \in Nat /\ Len(outbox'[d]) = Len(outbox[d]) + 1
        /\ \A i \in 1..Len(outbox[d]) : outbox'[d][i] = outbox[d][i]
        /\ outbox'[d][Len(outbox[d]) + 1] = e
    BY <2>2, <2>3, AppendSequence, SequenceDomain
  <2>6. /\ DOMAIN outbox[d] = 1..Len(outbox[d])
        /\ DOMAIN outbox'[d] = 1..(Len(outbox[d]) + 1)
    BY <2>2, <2>5, SequenceDomain
  <2>7. \A i \in DOMAIN outbox'[d] : RecordOK(outbox'[d][i])
    BY <2>1, <2>5, <2>6 DEF DeviceAt
  <2>8. IsPrefix(local[d], accepted')
    BY <2>1, PrefixTransitive DEF DeviceAt, LogGrows, Inv, LogOK
  <2>9. DeviceAt(d)'
    BY <2>1, <2>5, <2>7, <2>8 DEF DeviceAt, RecordOK
  <2>10. \A c \in Devices \ {d} : DeviceAt(c)'
    BY <2>4, RestingDevice
  <2>11. DevicesOK'
    BY <1>2, <2>9, <2>10 DEF Inv, DevicesOK
  <2>12. Grows
    BY <2>4, <2>5, <2>6, LengthsAreNatural DEF Grows
  <2>13. QED
    BY <2>11, <2>12
<1>3. QED
  BY <1>1, <1>2

LEMMA CursorSaved ==
  ASSUME Inv, LogGrows, UNCHANGED <<local, outbox>>,
         NEW d \in Devices, NEW n \in Nat, n <= Len(local[d]),
         cursor' = cursor \/ cursor' = [cursor EXCEPT ![d] = n]
  PROVE  DevicesOK' /\ Grows
<1>1. DOMAIN cursor = Devices /\ DeviceAt(d)
  BY DEF Inv, DevicesOK
<1>2. \A c \in Devices \ {d} : DeviceAt(c)'
  BY <1>1, RestingDevice
<1>3. cursor'[d] = cursor[d] \/ cursor'[d] = n
  BY <1>1
<1>4. IsPrefix(local[d], accepted')
  BY <1>1, PrefixTransitive DEF DeviceAt, LogGrows, Inv, LogOK
<1>5. DeviceAt(d)'
  BY <1>1, <1>3, <1>4 DEF DeviceAt
<1>6. DevicesOK'
  BY <1>1, <1>2, <1>5 DEF Inv, DevicesOK
<1>7. Grows
  BY LengthsAreNatural DEF Grows
<1>8. QED
  BY <1>6, <1>7

(***************************************************************************)
(* Importing a range of the log into a prefix of it leaves a prefix of it, *)
(* which reaches at least to the end of the range (ImportAcceptedBatch).   *)
(***************************************************************************)
LEMMA ImportKeepsPrefix ==
  ASSUME NEW log, NEW replica, IsSequence(log), IsSequence(replica),
         IsPrefix(replica, log), NEW n, NEW events, IsSequence(events),
         n \in Nat, n + Len(events) - 1 <= Len(log),
         events = SubSeq(log, n, n + Len(events) - 1),
         Importable(replica, n, events)
  PROVE  LET result == Imported(replica, n, events)
         IN /\ IsSequence(result) /\ IsPrefix(result, log)
            /\ Len(replica) <= Len(result)
            /\ n + Len(events) - 1 <= Len(result)
<1>. DEFINE last == n + Len(events) - 1
            kept == SubSeq(replica, 1, n - 1)
<1>1. /\ Len(log) \in Nat /\ Len(replica) \in Nat /\ Len(events) \in Nat
      /\ Len(replica) <= Len(log)
      /\ \A i \in 1..Len(replica) : replica[i] = log[i]
  BY SequenceDomain, PrefixByIndex
<1>2. n \in 1..(Len(replica) + 1)
  BY DEF Importable
<1>3. CASE last <= Len(replica)
  BY <1>1, <1>3 DEF Imported
<1>4. CASE ~(last <= Len(replica))
  <2>1. Imported(replica, n, events) = kept \o events
    BY <1>4 DEF Imported
  <2>2. /\ IsSequence(kept) /\ Len(kept) = n - 1
        /\ \A i \in 1..(n - 1) : kept[i] = replica[i]
    BY <1>1, <1>2, SubSequence
  <2>3. \A i \in 1..Len(events) : events[i] = log[n + i - 1]
    <3>1. last \in Nat /\ last <= Len(log)
      BY <1>1, <1>2
    <3>2. \A i \in 1..(last - n + 1) : SubSeq(log, n, last)[i] = log[n + i - 1]
      BY <1>2, <3>1, SubSequence
    <3>3. last - n + 1 = Len(events)
      BY <1>1
    <3>4. QED
      BY <3>2, <3>3
  <2>. DEFINE result == kept \o events
  <2>4. /\ IsSequence(result) /\ Len(result) = last
        /\ \A i \in 1..last :
             result[i] = IF i <= n - 1 THEN kept[i] ELSE events[i - (n - 1)]
    BY <1>1, <2>2, ConcatSequence
  <2>. HIDE DEF result, kept
  <2>5. \A i \in 1..last : result[i] = log[i]
    <3>1. TAKE i \in 1..last
    <3>2. CASE i <= n - 1
      <4>1. i \in 1..(n - 1) /\ i \in 1..Len(replica)
        BY <1>1, <1>2, <3>2
      <4>2. result[i] = kept[i]
        BY <2>4, <3>2
      <4>3. QED
        BY <1>1, <2>2, <4>1, <4>2
    <3>3. CASE ~(i <= n - 1)
      <4>1. i - (n - 1) \in 1..Len(events) /\ n + (i - (n - 1)) - 1 = i
        BY <1>1, <1>2, <3>3
      <4>2. result[i] = events[i - (n - 1)]
        BY <2>4, <3>3
      <4>3. QED
        BY <2>3, <4>1, <4>2
    <3>4. QED
      BY <3>2, <3>3
  <2>6. IsPrefix(result, log)
    BY <2>4, <2>5, PrefixByIndex
  <2>7. QED
    BY <1>1, <1>4, <2>1, <2>4, <2>6 DEF result, kept
<1>5. QED
  BY <1>3, <1>4
-----------------------------------------------------------------------------
(***************************************************************************)
(* The steps, one by one.                                                  *)
(***************************************************************************)
\* A step that leaves log and devices alone and moves only engine s.
LEMMA EngineStep ==
  ASSUME Inv, UNCHANGED <<core, local, outbox, cursor, late>>,
         stops' \in 0..MaxStops, NEW s \in Sessions, EnginesTyped',
         \A t \in Sessions \ {s} : Rests(t), EngineAt(s)'
  PROVE  Inv'
<1>1. LogGrows
  BY LogUnchanged
<1>2. DevicesOK' /\ Grows
  BY <1>1, DevicesRest
<1>3. EnginesOK'
  BY <1>2, EngineMoves
<1>4. LogOK' /\ LateOK'
  BY <1>1 DEF Inv, LogGrows, LogOK, LateOK
<1>5. QED
  BY <1>2, <1>3, <1>4 DEF Inv

\* What an engine may rely on.
LEMMA EngineFacts ==
  ASSUME Inv, NEW s \in Sessions
  PROVE  /\ EnginesTyped /\ EngineAt(s) /\ DeviceOf[s] \in Devices
         /\ DevicesOK /\ DeviceAt(DeviceOf[s]) /\ LogOK
         /\ stops \in 0..MaxStops
  BY DeviceOfEngine DEF Inv, EnginesOK, DevicesOK

LEMMA StartStep ==
  ASSUME Inv, NEW s \in Sessions, Start(s)
  PROVE  Inv'
<1>1. /\ EnginesTyped /\ EngineAt(s) /\ DeviceAt(DeviceOf[s])
      /\ stops \in 0..MaxStops
  BY EngineFacts
<1>2. EnginesTyped'
  BY <1>1 DEF EnginesTyped, Start, Goto
<1>3. \A t \in Sessions \ {s} : Rests(t)
  BY <1>1 DEF EnginesTyped, Start, Goto, Rests
<1>4. pc'[s] = "pull" /\ seen'[s] \in {seen[s], cursor[DeviceOf[s]]}
  BY <1>1 DEF EnginesTyped, Start, Goto
<1>5. UNCHANGED <<core, local, outbox, cursor, late, stops, writes, sends>>
  BY DEF Start, device
<1>6. EngineAt(s)'
  BY <1>1, <1>4, <1>5 DEF EngineAt, DeviceAt, Labels
<1>7. QED
  BY <1>1, <1>2, <1>3, <1>5, <1>6, EngineStep

LEMMA PullStep ==
  ASSUME Inv, NEW s \in Sessions, Pull(s)
  PROVE  Inv'
<1>. DEFINE n == seen[s] + 1
            range == SubSeq(accepted, n, Len(accepted))
<1>1. /\ EnginesTyped /\ EngineAt(s) /\ LogOK /\ DeviceOf[s] \in Devices
      /\ stops \in 0..MaxStops
  BY EngineFacts
<1>2. EnginesTyped'
  BY <1>1 DEF EnginesTyped, Pull, Goto
<1>3. \A t \in Sessions \ {s} : Rests(t)
  BY <1>1 DEF EnginesTyped, Pull, Goto, Rests
<1>4. /\ pc'[s] \in {"preflight", "import"} /\ pulled'[s] = range
      /\ seen'[s] = seen[s] /\ writes'[s] = writes[s] /\ sends'[s] = sends[s]
  BY <1>1 DEF EnginesTyped, Pull, Goto, Since
<1>5. UNCHANGED <<core, local, outbox, cursor, late, stops>>
  BY DEF Pull, device
<1>6. accepted' = accepted
  BY <1>5 DEF core
<1>7. /\ Len(accepted) \in Nat /\ seen[s] \in Nat /\ seen[s] <= Len(accepted)
  BY <1>1, LengthsAreNatural DEF EngineAt
<1>8. /\ IsSequence(range)
      /\ Len(range) = IF n <= Len(accepted) THEN Len(accepted) - n + 1 ELSE 0
  <2>1. n \in Nat \ {0} /\ IsSequence(accepted)
    BY <1>1, <1>7 DEF LogOK
  <2>. HIDE DEF n
  <2>2. QED
    BY <2>1, SuffixSequence
<1>9. FromLog(range, seen[s])
  <2>1. seen[s] + Len(range) = Len(accepted)
    <3>. HIDE DEF range
    <3>1. QED
      BY <1>7, <1>8
  <2>2. range = SubSeq(accepted, n, seen[s] + Len(range))
    BY <2>1, Zenon
  <2>3. seen[s] + Len(range) <= Len(accepted)
    <3>. HIDE DEF range
    <3>1. QED
      BY <1>7, <2>1
  <2>4. QED
    BY <1>8, <2>2, <2>3, Zenon DEF FromLog
<1>10. FromLog(pulled[s], seen[s])'
  <2>. HIDE DEF range
  <2>1. QED
    BY <1>4, <1>6, <1>9, Zenon DEF FromLog
<1>11. EngineAt(s)'
  BY <1>1, <1>4, <1>5, <1>10 DEF EngineAt, Labels
<1>12. QED
  BY <1>1, <1>2, <1>3, <1>5, <1>11, EngineStep

\* Importing a range of the log into the replica of the engine's device.
LEMMA ReplicaImported ==
  ASSUME Inv, UNCHANGED <<core, outbox, cursor>>,
         NEW d \in Devices, NEW n \in Nat, NEW events, IsSequence(events),
         n + Len(events) - 1 <= Len(accepted),
         events = SubSeq(accepted, n, n + Len(events) - 1),
         Importable(local[d], n, events),
         local' = [local EXCEPT ![d] = Imported(@, n, events)]
  PROVE  /\ DevicesOK' /\ Grows
         /\ n + Len(events) - 1 <= Len(local'[d])
<1>1. /\ LogOK /\ DOMAIN local = Devices /\ DeviceAt(d)
  BY DEF Inv, DevicesOK
<1>2. /\ LogGrows /\ accepted' = accepted
  BY LogUnchanged
<1>3. local'[d] = Imported(local[d], n, events)
  BY <1>1
<1>4. \A c \in Devices \ {d} : local'[c] = local[c]
  BY <1>1
<1>5. /\ IsSequence(local'[d]) /\ IsPrefix(local'[d], accepted)
      /\ Len(local[d]) <= Len(local'[d])
      /\ n + Len(events) - 1 <= Len(local'[d])
  BY <1>1, <1>3, ImportKeepsPrefix DEF LogOK, DeviceAt
<1>6. Len(local[d]) \in Nat /\ Len(local'[d]) \in Nat
  BY <1>1, <1>5, SequenceDomain DEF DeviceAt
<1>7. cursor[d] \in Nat /\ cursor[d] <= Len(local'[d])
  BY <1>1, <1>5, <1>6 DEF DeviceAt
<1>8. DeviceAt(d)'
  BY <1>1, <1>2, <1>5, <1>7 DEF DeviceAt
<1>9. \A c \in Devices \ {d} : DeviceAt(c)'
  BY <1>2, <1>4, RestingDevice
<1>10. DevicesOK'
  BY <1>1, <1>8, <1>9 DEF Inv, DevicesOK
<1>11. Grows
  BY <1>2, <1>4, <1>5, LengthsAreNatural DEF Grows
<1>12. QED
  BY <1>5, <1>10, <1>11

LEMMA ImportStep ==
  ASSUME Inv, NEW s \in Sessions, Import(s)
  PROVE  Inv'
<1>. DEFINE d == DeviceOf[s]
<1>1. /\ EnginesTyped /\ EngineAt(s) /\ d \in Devices /\ LogOK
      /\ stops \in 0..MaxStops
  BY EngineFacts
<1>2. UNCHANGED <<core, outbox, cursor, late, stops>>
  BY DEF Import
<1>3. LogOK' /\ LateOK' /\ stops' \in 0..MaxStops /\ accepted' = accepted
  BY <1>1, <1>2 DEF LogOK, core, Inv, LateOK
<1>4. CASE Importable(local[d], seen[s] + 1, pulled[s])
  <2>1. /\ local' = [local EXCEPT ![d] = Imported(@, seen[s] + 1, pulled[s])]
        /\ Goto(s, "reconcile") /\ UNCHANGED <<seen, memory>>
    BY <1>4 DEF Import
  <2>2. FromLog(pulled[s], seen[s]) /\ seen[s] \in Nat
    BY <1>1 DEF Import, At, EngineAt
  <2>3. IsSequence(pulled[s]) /\ Len(pulled[s]) \in Nat
    BY <2>2, SequenceDomain DEF FromLog
  <2>. DEFINE n == seen[s] + 1
              last == seen[s] + Len(pulled[s])
  <2>4. n \in Nat /\ n + Len(pulled[s]) - 1 = last
    BY <2>2, <2>3
  <2>5. last <= Len(accepted) /\ pulled[s] = SubSeq(accepted, n, last)
    BY <2>2 DEF FromLog
  <2>6. DevicesOK' /\ Grows /\ last <= Len(local'[d])
    <3>. HIDE DEF n, last
    <3>1. /\ Importable(local[d], n, pulled[s])
          /\ local' = [local EXCEPT ![d] = Imported(@, n, pulled[s])]
      BY <1>4, <2>1 DEF n
    <3>2. QED
      BY <1>1, <1>2, <2>3, <2>4, <2>5, <3>1, ReplicaImported
  <2>7. EnginesTyped'
    BY <1>1, <2>1 DEF EnginesTyped, Goto, memory
  <2>8. \A t \in Sessions \ {s} : Rests(t)
    BY <1>1, <2>1 DEF EnginesTyped, Goto, memory, Rests
  <2>9. /\ pc'[s] = "reconcile" /\ pulled'[s] = pulled[s] /\ seen'[s] = seen[s]
        /\ writes'[s] = writes[s] /\ sends'[s] = sends[s]
    BY <1>1, <2>1 DEF EnginesTyped, Goto, memory
  <2>10. seen[s] <= Len(local'[d])
    <3>1. Len(local'[d]) \in Nat
      BY <1>1, <2>6, SequenceDomain DEF DevicesOK, DeviceAt
    <3>2. QED
      BY <2>2, <2>3, <2>6, <3>1
  <2>11. EngineAt(s)'
    BY <1>1, <1>2, <2>2, <2>3, <2>6, <2>9, <2>10 DEF EngineAt, Labels
  <2>12. QED
    BY <1>3, <2>6, <2>7, <2>8, <2>11, EngineMoves DEF Inv
<1>5. CASE ~Importable(local[d], seen[s] + 1, pulled[s])
  <2>1. End(s) /\ UNCHANGED local
    BY <1>5 DEF Import
  <2>2. DevicesOK' /\ Grows
    BY <1>2, <2>1, LogUnchanged, DevicesRest
  <2>3. QED
    BY <1>3, <2>1, <2>2, EngineEnds DEF Inv
<1>6. QED
  BY <1>4, <1>5

LEMMA ReconcileStep ==
  ASSUME Inv, NEW s \in Sessions, Reconcile(s)
  PROVE  Inv'
<1>1. /\ EnginesTyped /\ EngineAt(s) /\ stops \in 0..MaxStops
  BY EngineFacts
<1>2. EnginesTyped'
  BY <1>1 DEF EnginesTyped, Reconcile, Goto
<1>3. \A t \in Sessions \ {s} : Rests(t)
  BY <1>1 DEF EnginesTyped, Reconcile, Goto, Rests
<1>4. UNCHANGED <<core, local, outbox, cursor, late, stops, pulled, seen, sends>>
  BY DEF Reconcile, device
<1>5. /\ pc[s] = "reconcile" /\ pc'[s] = "settle"
      /\ writes'[s] \subseteq DOMAIN outbox[DeviceOf[s]]
  BY <1>1 DEF EnginesTyped, Reconcile, Goto, At, PendingAt, EntriesAt
<1>6. EngineAt(s)'
  BY <1>1, <1>4, <1>5 DEF EngineAt, Labels
<1>7. QED
  BY <1>1, <1>2, <1>3, <1>4, <1>6, EngineStep

LEMMA PreflightStep ==
  ASSUME Inv, NEW s \in Sessions, Preflight(s)
  PROVE  Inv'
<1>1. /\ EnginesTyped /\ EngineAt(s) /\ stops \in 0..MaxStops
  BY EngineFacts
<1>2. PICK sendable \in SUBSET PendingAt(DeviceOf[s]) :
        /\ sends' = [sends EXCEPT ![s] = sendable]
        /\ writes' = [writes EXCEPT ![s] = PendingAt(DeviceOf[s]) \ sendable]
  BY DEF Preflight
<1>3. /\ pc' = [pc EXCEPT ![s] = "screen"]
      /\ UNCHANGED <<core, local, outbox, cursor, late, stops, seen, pulled, answer>>
  BY DEF Preflight, Goto, device
<1>4. EnginesTyped'
  BY <1>1, <1>2, <1>3 DEF EnginesTyped
<1>5. \A t \in Sessions \ {s} : Rests(t)
  BY <1>1, <1>2, <1>3 DEF EnginesTyped, Rests
<1>6. /\ pc'[s] = "screen" /\ sends'[s] \subseteq DOMAIN outbox[DeviceOf[s]]
      /\ writes'[s] \subseteq DOMAIN outbox[DeviceOf[s]]
  BY <1>1, <1>2, <1>3 DEF EnginesTyped, PendingAt, EntriesAt
<1>7. EngineAt(s)'
  BY <1>1, <1>3, <1>6 DEF EngineAt, Labels
<1>8. QED
  BY <1>1, <1>3, <1>4, <1>5, <1>7, EngineStep

LEMMA ScreenedStep ==
  ASSUME Inv, NEW s \in Sessions, Screened(s)
  PROVE  Inv'
<1>1. /\ EnginesTyped /\ EngineAt(s) /\ stops \in 0..MaxStops
  BY EngineFacts
<1>2. /\ pc' = [pc EXCEPT ![s] = "push"]
      /\ UNCHANGED <<core, local, outbox, cursor, late, stops, seen, memory>>
  BY DEF Screened, Goto, device
<1>3. EnginesTyped'
  BY <1>1, <1>2 DEF EnginesTyped, memory
<1>4. \A t \in Sessions \ {s} : Rests(t)
  BY <1>1, <1>2 DEF EnginesTyped, Rests, memory
<1>5. EngineAt(s)'
  BY <1>1, <1>2 DEF EnginesTyped, EngineAt, Labels, memory
<1>6. QED
  BY <1>1, <1>2, <1>3, <1>4, <1>5, EngineStep

\* An attempt that ends and leaves log and devices alone.
LEMMA EndStep ==
  ASSUME Inv, UNCHANGED <<core, local, outbox, cursor, late>>,
         stops' \in 0..MaxStops, NEW s \in Sessions, End(s)
  PROVE  Inv'
<1>1. LogGrows
  BY LogUnchanged
<1>2. DevicesOK' /\ Grows
  BY <1>1, DevicesRest
<1>3. EnginesOK'
  BY <1>2, EngineEnds
<1>4. LogOK' /\ LateOK'
  BY <1>1 DEF Inv, LogGrows, LogOK, LateOK
<1>5. QED
  BY <1>2, <1>3, <1>4 DEF Inv

\* The bound on attempts cut short.
LEMMA OneMoreStop ==
  ASSUME stops \in 0..MaxStops, stops < MaxStops, stops' = stops + 1
  PROVE  stops' \in 0..MaxStops
  BY SyncAssumption

LEMMA EndingSteps ==
  ASSUME Inv, NEW s \in Sessions, Finish(s) \/ Offline(s) \/ Stop(s)
  PROVE  Inv'
<1>1. End(s) /\ UNCHANGED <<core, local, outbox, cursor, late>>
  BY DEF Finish, Offline, Stop, device
<1>2. stops' \in 0..MaxStops
  BY EngineFacts, OneMoreStop DEF Finish, Offline, Stop
<1>3. QED
  BY <1>1, <1>2, EndStep

(***************************************************************************)
(* Settling an entry: after the pull or after the preflight.               *)
(***************************************************************************)
LEMMA SettleFirstStep ==
  ASSUME Inv, NEW s \in Sessions, pc[s] \in {"settle", "screen"},
         NEW i \in writes[s], NEW e,
         IsSequence(outbox[DeviceOf[s]][i].batch.events) => RecordOK(e),
         UNCHANGED <<core, local, cursor, late, stops>>,
         \/ /\ Update(DeviceOf[s], e)
            /\ writes' = [writes EXCEPT ![s] = @ \ {i}]
            /\ UNCHANGED <<pc, seen, pulled, sends, answer>>
         \/ End(s) /\ UNCHANGED outbox
  PROVE  Inv'
<1>. DEFINE d == DeviceOf[s]
<1>1. /\ EnginesTyped /\ EngineAt(s) /\ d \in Devices /\ DeviceAt(d)
      /\ stops' \in 0..MaxStops
  BY EngineFacts
<1>2. CASE End(s) /\ UNCHANGED outbox
  BY <1>1, <1>2, EndStep
<1>3. CASE /\ Update(d, e)
           /\ writes' = [writes EXCEPT ![s] = @ \ {i}]
           /\ UNCHANGED <<pc, seen, pulled, sends, answer>>
  <2>1. LogGrows /\ accepted' = accepted
    BY LogUnchanged
  <2>2. i \in DOMAIN outbox[d]
    BY <1>1 DEF EngineAt
  <2>3. RecordOK(e)
    BY <1>1, <2>2 DEF DeviceAt, RecordOK
  <2>4. outbox' = outbox \/ outbox' = [outbox EXCEPT ![d] = Append(@, e)]
    BY <1>3 DEF Update
  <2>5. DevicesOK' /\ Grows
    BY <1>1, <2>1, <2>3, <2>4, RecordAdded
  <2>6. EnginesTyped'
    BY <1>1, <1>3 DEF EnginesTyped
  <2>7. \A t \in Sessions \ {s} : Rests(t)
    BY <1>1, <1>3 DEF EnginesTyped, Rests
  <2>8. /\ writes'[s] \subseteq writes[s] /\ pc'[s] = pc[s]
        /\ DOMAIN outbox[d] \subseteq DOMAIN outbox'[d]
    BY <1>1, <1>3, <2>5 DEF EnginesTyped, Grows
  <2>9. EngineAt(s)'
    BY <1>1, <1>3, <2>1, <2>8 DEF EngineAt
  <2>10. EnginesOK'
    BY <2>5, <2>6, <2>7, <2>9, EngineMoves
  <2>11. LogOK' /\ LateOK'
    BY <2>1 DEF Inv, LogGrows, LogOK, LateOK
  <2>12. QED
    BY <1>1, <2>5, <2>10, <2>11 DEF Inv
<1>4. QED
  BY <1>2, <1>3

LEMMA SettleStep ==
  ASSUME Inv, NEW s \in Sessions, Settle(s)
  PROVE  Inv'
<1>. DEFINE entry(i) == Reconciled(s, outbox[DeviceOf[s]][i].batch)
<1>1. PICK i \in writes[s] :
        \/ /\ Update(DeviceOf[s], entry(i))
           /\ writes' = [writes EXCEPT ![s] = @ \ {i}]
           /\ UNCHANGED <<pc, seen, pulled, sends, answer>>
        \/ End(s) /\ UNCHANGED outbox
  BY DEF Settle, SettleFirst
<1>2. UNCHANGED <<core, local, cursor, late, stops>> /\ pc[s] = "settle"
  BY DEF Settle, SettleFirst, At
<1>3. IsSequence(outbox[DeviceOf[s]][i].batch.events) => RecordOK(entry(i))
  BY DEF RecordOK, Reconciled, Entry, Statuses
<1>4. QED
  BY <1>1, <1>2, <1>3, SettleFirstStep

LEMMA ScreenStep ==
  ASSUME Inv, NEW s \in Sessions, Screen(s)
  PROVE  Inv'
<1>. DEFINE entry(i) == Entry(outbox[DeviceOf[s]][i].batch, "rejected", "preflight")
<1>1. PICK i \in writes[s] :
        \/ /\ Update(DeviceOf[s], entry(i))
           /\ writes' = [writes EXCEPT ![s] = @ \ {i}]
           /\ UNCHANGED <<pc, seen, pulled, sends, answer>>
        \/ End(s) /\ UNCHANGED outbox
  BY DEF Screen, SettleFirst
<1>2. UNCHANGED <<core, local, cursor, late, stops>> /\ pc[s] = "screen"
  BY DEF Screen, SettleFirst, At
<1>3. IsSequence(outbox[DeviceOf[s]][i].batch.events) => RecordOK(entry(i))
  BY DEF RecordOK, Entry, Statuses
<1>4. QED
  BY <1>1, <1>2, <1>3, SettleFirstStep

LEMMA SaveCursorStep ==
  ASSUME Inv, NEW s \in Sessions, NEW n \in Nat, n <= Len(local[DeviceOf[s]]),
         NEW label \in {"preflight", "push"}, SaveCursor(s, n, label)
  PROVE  Inv'
<1>. DEFINE d == DeviceOf[s]
<1>1. /\ EnginesTyped /\ EngineAt(s) /\ d \in Devices /\ DeviceAt(d)
      /\ stops \in 0..MaxStops
  BY EngineFacts
<1>2. LogGrows /\ UNCHANGED <<local, outbox, late>>
  BY LogUnchanged DEF SaveCursor
<1>3. cursor' = cursor \/ cursor' = [cursor EXCEPT ![d] = n]
  BY DEF SaveCursor
<1>4. DevicesOK' /\ Grows
  BY <1>1, <1>2, <1>3, CursorSaved
<1>5. seen' = [seen EXCEPT ![s] = n]
  BY DEF SaveCursor
<1>6. CASE Leave(s, None) /\ stops < MaxStops /\ stops' = stops + 1
  <2>1. EnginesOK'
    BY <1>2, <1>4, <1>5, <1>6, EngineLeaves
  <2>2. QED
    BY <1>1, <1>2, <1>4, <1>6, <2>1, OneMoreStop
       DEF Inv, LogOK, LogGrows, LateOK
<1>7. CASE /\ Goto(s, label) /\ UNCHANGED <<writes, sends, stops>>
           /\ pulled' = [pulled EXCEPT ![s] = <<>>]
           /\ answer' = [answer EXCEPT ![s] = None]
  <2>1. EnginesTyped'
    BY <1>1, <1>5, <1>7 DEF EnginesTyped, Goto
  <2>2. \A t \in Sessions \ {s} : Rests(t)
    BY <1>1, <1>5, <1>7 DEF EnginesTyped, Goto, Rests
  <2>3. pc'[s] = label /\ seen'[s] = n
    BY <1>1, <1>5, <1>7 DEF EnginesTyped, Goto
  <2>4. EngineAt(s)'
    BY <1>1, <1>2, <1>7, <2>3 DEF EngineAt, Labels
  <2>5. EnginesOK'
    BY <1>4, <2>1, <2>2, <2>4, EngineMoves
  <2>6. QED
    BY <1>1, <1>2, <1>4, <1>7, <2>5 DEF Inv, LogOK, LogGrows, LateOK
<1>8. QED
  BY <1>6, <1>7 DEF SaveCursor

LEMMA SavePulledStep ==
  ASSUME Inv, NEW s \in Sessions, SavePulled(s)
  PROVE  Inv'
<1>1. /\ seen[s] \in Nat /\ IsSequence(pulled[s])
      /\ seen[s] + Len(pulled[s]) <= Len(local[DeviceOf[s]])
  BY EngineFacts DEF SavePulled, At, EngineAt
<1>2. Len(pulled[s]) \in Nat
  BY <1>1, SequenceDomain
<1>3. QED
  BY <1>1, <1>2, SaveCursorStep DEF SavePulled

LEMMA AdvanceStep ==
  ASSUME Inv, NEW s \in Sessions, Advance(s)
  PROVE  Inv'
<1>1. answer[s].to \in Nat /\ answer[s].to <= Len(local[DeviceOf[s]])
  BY EngineFacts DEF Advance, At, EngineAt, Bounded
<1>2. QED
  BY <1>1, SaveCursorStep DEF Advance

(***************************************************************************)
(* Pushing.  The batch comes from the outbox, so the verdict on it is      *)
(* bounded by the log it leaves.                                           *)
(***************************************************************************)
LEMMA SentBatch ==
  ASSUME Inv, NEW s \in Sessions, NEW batch \in ToSend(s)
  PROVE  IsSequence(batch.events)
<1>1. EngineAt(s) /\ DeviceAt(DeviceOf[s])
  BY EngineFacts
<1>2. PICK i \in sends[s] : batch = outbox[DeviceOf[s]][i].batch
  BY DEF ToSend
<1>3. QED
  BY <1>1, <1>2 DEF EngineAt, DeviceAt, RecordOK

LEMMA PerformVerdict ==
  ASSUME Inv, NEW batch, IsSequence(batch.events), Perform(Verdict(batch))
  PROVE  LogGrows /\ Bounded(Verdict(batch), Len(accepted'))
<1>. DEFINE v == Verdict(batch)
<1>1. IsSequence(accepted) /\ accepted # <<>> /\ mode \in Modes
  BY DEF Inv, LogOK
<1>2. IsSequence(v.append) /\ Bounded(v, Len(accepted) + Len(v.append))
  BY <1>1, VerdictIsBounded
<1>3. LogGrows /\ Len(accepted') = Len(accepted) + Len(v.append)
  BY <1>1, <1>2, PerformAppends
<1>4. QED
  BY <1>2, <1>3

LEMMA HearStep ==
  ASSUME Inv, Grows, DevicesOK', NEW s \in Sessions, NEW batch,
         IsSequence(batch.events), NEW reply,
         Bounded(reply, Len(accepted')), Hear(s, batch, reply)
  PROVE  EnginesOK'
<1>. DEFINE d == DeviceOf[s]
            verdict == [Entry(batch, reply.status, "pushed") EXCEPT
                          !.from = reply.from, !.to = reply.to]
<1>1. /\ EnginesTyped /\ EngineAt(s) /\ d \in Devices
  BY EngineFacts
<1>2. /\ verdict.batch = batch /\ verdict.status = reply.status
      /\ verdict.from = reply.from /\ verdict.to = reply.to
  BY DEF Entry
<1>3. /\ Len(local[d]) \in Nat /\ Len(local'[d]) \in Nat
      /\ Len(local[d]) <= Len(local'[d])
      /\ DOMAIN outbox[d] \subseteq DOMAIN outbox'[d]
  BY <1>1, LengthsAreNatural, SequenceDomain DEF Grows, DevicesOK, DeviceAt
<1>4. seen[s] \in Nat /\ seen[s] <= Len(local'[d])
  BY <1>1, <1>3 DEF EngineAt
<1>5. ASSUME NEW label \in {"answered", "record"}, Goto(s, label),
             answer' = [answer EXCEPT ![s] = verdict],
             UNCHANGED <<seen, pulled, writes, sends>>,
             reply.status \in {"accepted", "rejected", "conflict"},
             label = "record" => reply.to = 0
      PROVE  EnginesOK'
  <2>. HIDE DEF verdict
  <2>1. EnginesTyped'
    BY <1>1, <1>5 DEF EnginesTyped, Goto
  <2>2. \A t \in Sessions \ {s} : Rests(t)
    BY <1>1, <1>5 DEF EnginesTyped, Goto, Rests
  <2>3. pc'[s] = label /\ answer'[s] = verdict
    BY <1>1, <1>5 DEF EnginesTyped, Goto
  <2>4. RecordOK(verdict) /\ Bounded(verdict, Len(accepted'))
    BY <1>2, <1>5 DEF RecordOK, Statuses, Bounded
  <2>5. label = "record" => Bounded(verdict, Len(local'[d]))
    BY <1>2, <1>3, <1>5 DEF Bounded
  <2>6. EngineAt(s)'
    BY <1>1, <1>3, <1>4, <1>5, <2>3, <2>4, <2>5
       DEF EngineAt, Labels, Bounded, RecordOK
  <2>7. QED
    BY <2>1, <2>2, <2>6, EngineMoves
<1>6. CASE End(s)
  BY <1>6, EngineEnds
<1>7. CASE Leave(s, verdict) /\ UNCHANGED seen
  BY <1>4, <1>7, EngineLeaves
<1>8. QED
  BY <1>5, <1>6, <1>7 DEF Hear, Bounded

LEMMA PushStep ==
  ASSUME Inv, NEW s \in Sessions, Push(s) \/ PushUnheard(s)
  PROVE  Inv'
<1>1. PICK batch \in ToSend(s) :
        /\ Perform(Verdict(batch))
        /\ End(s) \/ Hear(s, batch, Verdict(batch))
  BY DEF Push, PushUnheard
<1>2. UNCHANGED <<local, outbox, cursor, late>> /\ stops' \in 0..MaxStops
  BY EngineFacts, OneMoreStop DEF Push, PushUnheard, device
<1>3. IsSequence(batch.events)
  BY SentBatch
<1>4. LogGrows /\ Bounded(Verdict(batch), Len(accepted'))
  BY <1>1, <1>3, PerformVerdict
<1>5. DevicesOK' /\ Grows
  BY <1>2, <1>4, DevicesRest
<1>6. EnginesOK'
  BY <1>1, <1>3, <1>4, <1>5, EngineEnds, HearStep
<1>7. QED
  BY <1>2, <1>4, <1>5, <1>6 DEF Inv, LogOK, LogGrows, LateOK

LEMMA PushLateStep ==
  ASSUME Inv, NEW s \in Sessions, PushLate(s)
  PROVE  Inv'
<1>1. PICK batch \in ToSend(s) : late' = late \cup {batch}
  BY DEF PushLate
<1>2. /\ End(s) /\ UNCHANGED <<core, local, outbox, cursor>>
      /\ stops' \in 0..MaxStops
  BY EngineFacts, OneMoreStop DEF PushLate, device
<1>3. LateOK'
  BY <1>1, SentBatch DEF Inv, LateOK
<1>4. LogGrows
  BY <1>2, LogUnchanged
<1>5. DevicesOK' /\ Grows
  BY <1>2, <1>4, DevicesRest
<1>6. EnginesOK'
  BY <1>2, <1>5, EngineEnds
<1>7. QED
  BY <1>2, <1>3, <1>4, <1>5, <1>6 DEF Inv, LogOK, LogGrows

LEMMA DeliverLateStep ==
  ASSUME Inv, DeliverLate
  PROVE  Inv'
<1>1. PICK batch \in late : Perform(Verdict(batch)) /\ late' = late \ {batch}
  BY DEF DeliverLate
<1>2. UNCHANGED <<local, outbox, cursor, engine, stops>>
  BY DEF DeliverLate, device
<1>3. IsSequence(batch.events) /\ LateOK'
  BY <1>1 DEF Inv, LateOK
<1>4. LogGrows
  BY <1>1, <1>3, PerformVerdict
<1>5. DevicesOK' /\ Grows
  BY <1>2, <1>4, DevicesRest
<1>6. EnginesOK'
  BY <1>2, <1>5, EnginesRest
<1>7. QED
  BY <1>2, <1>3, <1>4, <1>5, <1>6 DEF Inv, LogOK, LogGrows

LEMMA PushStaleStep ==
  ASSUME Inv, NEW s \in Sessions, PushStale(s)
  PROVE  Inv'
<1>1. PICK batch \in ToSend(s) :
        Update(DeviceOf[s], Entry(batch, "pending", "stale"))
  BY DEF PushStale
<1>. DEFINE e == Entry(batch, "pending", "stale")
<1>2. End(s) /\ UNCHANGED <<core, local, cursor, late, stops>>
  BY DEF PushStale
<1>3. RecordOK(e)
  BY SentBatch DEF RecordOK, Entry, Statuses
<1>4. outbox' = outbox \/ outbox' = [outbox EXCEPT ![DeviceOf[s]] = Append(@, e)]
  BY <1>1 DEF Update
<1>5. LogGrows
  BY <1>2, LogUnchanged
<1>6. DevicesOK' /\ Grows
  BY <1>2, <1>3, <1>4, <1>5, RecordAdded, DeviceOfEngine
<1>7. EnginesOK'
  BY <1>2, <1>6, EngineEnds
<1>8. QED
  BY <1>2, <1>5, <1>6, <1>7 DEF Inv, LogOK, LogGrows, LateOK

LEMMA ImportPushedStep ==
  ASSUME Inv, NEW s \in Sessions, ImportPushed(s)
  PROVE  Inv'
<1>. DEFINE d == DeviceOf[s]
            from == answer[s].from
            to == answer[s].to
            events == SubSeq(accepted, from, to)
<1>1. /\ EnginesTyped /\ EngineAt(s) /\ d \in Devices /\ LogOK /\ DeviceAt(d)
      /\ stops \in 0..MaxStops
  BY EngineFacts
<1>2. UNCHANGED <<core, outbox, cursor, late, stops>>
  BY DEF ImportPushed
<1>3. LogOK' /\ LateOK' /\ stops' \in 0..MaxStops
  BY <1>1, <1>2 DEF LogOK, core, Inv, LateOK
<1>4. /\ RecordOK(answer[s]) /\ Bounded(answer[s], Len(accepted))
      /\ from \in Nat /\ to \in Nat /\ to <= Len(accepted)
  BY <1>1 DEF ImportPushed, At, EngineAt, Bounded
<1>5. CASE Importable(local[d], from, events)
  <2>1. /\ local' = [local EXCEPT ![d] = Imported(@, from, events)]
        /\ Goto(s, "record") /\ UNCHANGED <<seen, memory>>
    BY <1>5 DEF ImportPushed
  <2>2. Len(local[d]) \in Nat /\ from \in Nat \ {0} /\ events # <<>>
    BY <1>1, <1>5, SequenceDomain DEF DeviceAt, Importable
  <2>3. IsSequence(events) /\ Len(events) = IF from <= to THEN to - from + 1 ELSE 0
    BY <1>1, <1>4, <2>2, SubSequence DEF LogOK
  <2>4. from <= to
    BY <1>4, <2>2, <2>3, SubSeqEmpty
  <2>5. from + Len(events) - 1 = to
    BY <1>4, <2>3, <2>4
  <2>6. DevicesOK' /\ Grows /\ to <= Len(local'[d])
    <3>1. events = SubSeq(accepted, from, from + Len(events) - 1)
      BY <2>5
    <3>. HIDE DEF events, from, to
    <3>2. QED
      BY <1>1, <1>2, <1>4, <1>5, <2>1, <2>3, <2>5, <3>1, ReplicaImported
  <2>7. EnginesTyped'
    BY <1>1, <2>1 DEF EnginesTyped, Goto, memory
  <2>8. \A t \in Sessions \ {s} : Rests(t)
    BY <1>1, <2>1 DEF EnginesTyped, Goto, memory, Rests
  <2>9. pc'[s] = "record" /\ UNCHANGED <<seen, answer, writes, sends>>
    BY <1>1, <2>1 DEF EnginesTyped, Goto, memory
  <2>10. seen[s] <= Len(local'[d])
    <3>1. Len(local'[d]) \in Nat /\ Len(local[d]) <= Len(local'[d])
      BY <1>1, <2>6, SequenceDomain DEF DevicesOK, DeviceAt, Grows
    <3>2. QED
      BY <1>1, <2>2, <3>1 DEF EngineAt
  <2>11. Bounded(answer[s], Len(local'[d]))
    BY <1>4, <2>6 DEF Bounded
  <2>12. EngineAt(s)'
    BY <1>1, <1>2, <1>4, <2>9, <2>10, <2>11 DEF EngineAt, Labels, RecordOK, Bounded
  <2>13. QED
    BY <1>3, <2>6, <2>7, <2>8, <2>12, EngineMoves DEF Inv
<1>6. CASE ~Importable(local[d], from, events)
  BY <1>1, <1>2, <1>6, EndStep DEF ImportPushed
<1>7. QED
  BY <1>5, <1>6

LEMMA RecordVerdictStep ==
  ASSUME Inv, NEW s \in Sessions, RecordVerdict(s)
  PROVE  Inv'
<1>. DEFINE d == DeviceOf[s]
<1>1. /\ EnginesTyped /\ EngineAt(s) /\ d \in Devices /\ stops' \in 0..MaxStops
  BY EngineFacts DEF RecordVerdict
<1>2. UNCHANGED <<core, local, cursor, late, stops>>
  BY DEF RecordVerdict
<1>3. CASE CanUpdate(d, answer[s])
  <2>1. /\ Update(d, answer[s])
        /\ Goto(s, IF answer[s].to > seen[s] THEN "advance" ELSE "push")
        /\ UNCHANGED <<seen, pulled, writes, answer>>
    BY <1>3 DEF RecordVerdict
  <2>2. PICK i \in sends[s] : sends' = [sends EXCEPT ![s] = @ \ {i}]
    BY <1>3 DEF RecordVerdict
  <2>3. RecordOK(answer[s]) /\ Bounded(answer[s], Len(local[d]))
    BY <1>1 DEF RecordVerdict, At, EngineAt
  <2>4. LogGrows
    BY <1>2, LogUnchanged
  <2>5. outbox' = outbox \/ outbox' = [outbox EXCEPT ![d] = Append(@, answer[s])]
    BY <2>1 DEF Update
  <2>6. DevicesOK' /\ Grows
    BY <1>1, <1>2, <2>3, <2>4, <2>5, RecordAdded
  <2>7. EnginesTyped'
    BY <1>1, <2>1, <2>2 DEF EnginesTyped, Goto
  <2>8. \A t \in Sessions \ {s} : Rests(t)
    BY <1>1, <2>1, <2>2 DEF EnginesTyped, Goto, Rests
  <2>9. /\ pc'[s] \in {"advance", "push"} /\ sends'[s] \subseteq sends[s]
        /\ DOMAIN outbox[d] \subseteq DOMAIN outbox'[d]
    BY <1>1, <2>1, <2>2, <2>6 DEF EnginesTyped, Goto, Grows
  <2>10. EngineAt(s)'
    BY <1>1, <1>2, <2>1, <2>3, <2>9 DEF EngineAt, Labels, RecordOK, Bounded
  <2>11. EnginesOK'
    BY <2>6, <2>7, <2>8, <2>10, EngineMoves
  <2>12. QED
    BY <1>1, <1>2, <2>4, <2>6, <2>11 DEF Inv, LogOK, LogGrows, LateOK
<1>4. CASE ~CanUpdate(d, answer[s])
  BY <1>1, <1>2, <1>4, EndStep DEF RecordVerdict
<1>5. QED
  BY <1>3, <1>4

LEMMA LocalAppendStep ==
  ASSUME Inv, FunctionsOK, NEW d \in Devices, LocalAppend(d)
  PROVE  Inv'
<1>. DEFINE e == Entry(NextBatch(d), "pending", "written")
            steps == Work[d][written[d] + 1].steps
<1>1. /\ outbox' = [outbox EXCEPT ![d] = Append(@, e)]
      /\ UNCHANGED <<core, local, cursor, engine, late, stops>>
  BY DEF LocalAppend
<1>2. LogGrows
  BY <1>1, LogUnchanged
<1>3. RecordOK(e)
  <2>1. written[d] + 1 \in DOMAIN Work[d]
    BY WorkAssumption, SequenceDomain DEF LocalAppend, FunctionsOK
  <2>2. IsSequence(steps)
    BY <2>1, WorkAssumption
  <2>3. Len(steps) \in Nat /\ DOMAIN steps = 1..Len(steps)
    BY <2>2, SequenceDomain
  <2>4. IsSequence(NextBatch(d).events)
    BY <2>3, FunctionIsSequence DEF NextBatch
  <2>5. QED
    BY <2>4 DEF RecordOK, Entry, Statuses
<1>4. DevicesOK' /\ Grows
  BY <1>1, <1>2, <1>3, RecordAdded
<1>5. EnginesOK'
  BY <1>1, <1>4, EnginesRest
<1>6. QED
  BY <1>1, <1>2, <1>4, <1>5 DEF Inv, LogOK, LogGrows, LateOK

LEMMA ServiceStep ==
  ASSUME Inv, Service
  PROVE  Inv'
<1>1. UNCHANGED <<local, outbox, cursor, engine, late, stops>>
  BY DEF Service, device
<1>2. LogGrows
  BY ServiceKeepsLog DEF Service, Inv, LogOK
<1>3. DevicesOK' /\ Grows
  BY <1>1, <1>2, DevicesRest
<1>4. EnginesOK'
  BY <1>1, <1>3, EnginesRest
<1>5. QED
  BY <1>1, <1>2, <1>3, <1>4 DEF Inv, LogOK, LogGrows, LateOK
-----------------------------------------------------------------------------
LEMMA InvInitially ==
  ASSUME Init
  PROVE  Inv /\ FunctionsOK
<1>1. /\ IsSequence(Seed) /\ Seed # <<>> /\ Len(Seed) \in Nat
      /\ IsPrefix(Seed, Seed)
  BY SeedAssumption, SequenceDomain, PrefixReflexive
<1>2. LogOK /\ LateOK /\ FunctionsOK /\ stops \in 0..MaxStops
  BY <1>1, SyncAssumption DEF Init, LogOK, Modes, LateOK, FunctionsOK, IsFunction
<1>3. DevicesOK
  BY <1>1, EmptyIsSequence, SequenceDomain DEF Init, DevicesOK, DeviceAt
<1>4. EnginesOK
  BY <1>1, DeviceOfEngine
     DEF Init, EnginesOK, EnginesTyped, EngineAt, Labels
<1>5. QED
  BY <1>2, <1>3, <1>4 DEF Inv

LEMMA FunctionsStep ==
  ASSUME FunctionsOK, [Next]_vars
  PROVE  FunctionsOK'
<1>1. ASSUME NEW d \in Devices, LocalAppend(d)
      PROVE  FunctionsOK'
  BY <1>1 DEF LocalAppend, FunctionsOK, engine
<1>2. ASSUME NEW s \in Sessions,
             Attempt(s) \/ PushUnheard(s) \/ PushLate(s) \/ PushStale(s) \/ Stop(s)
      PROVE  /\ UNCHANGED written
             /\ IsFunction(pc') /\ IsFunction(seen') /\ IsFunction(cursor')
  <2>. USE <1>2 DEF IsFunction, FunctionsOK
  <2>1. UNCHANGED written
    BY DEF Attempt, Start, Pull, Import, Reconcile, Settle, SettleFirst,
       SavePulled, SaveCursor, Preflight, Screen, Screened, Push, ImportPushed,
       RecordVerdict, Advance, Finish, Offline, PushUnheard, PushLate,
       PushStale, Stop, device
  <2>2. IsFunction(cursor')
    BY DEF Attempt, Start, Pull, Import, Reconcile, Settle, SettleFirst,
       SavePulled, SaveCursor, Preflight, Screen, Screened, Push, ImportPushed,
       RecordVerdict, Advance, Finish, Offline, PushUnheard, PushLate,
       PushStale, Stop, device
  <2>3. IsFunction(seen')
    BY DEF Attempt, Start, Pull, Import, Reconcile, Settle, SettleFirst,
       SavePulled, SaveCursor, Preflight, Screen, Screened, Push, Hear,
       ImportPushed, RecordVerdict, Advance, Finish, Offline, PushUnheard,
       PushLate, PushStale, Stop, End
  <2>4. IsFunction(pc')
    BY DEF Attempt, Start, Pull, Import, Reconcile, Settle, SettleFirst,
       SavePulled, SaveCursor, Preflight, Screen, Screened, Push, Hear,
       ImportPushed, RecordVerdict, Advance, Finish, Offline, PushUnheard,
       PushLate, PushStale, Stop, End, Leave, Goto
  <2>5. QED
    BY <2>1, <2>2, <2>3, <2>4
<1>3. DeliverLate \/ Service \/ UNCHANGED vars =>
        UNCHANGED <<written, pc, seen, cursor>>
  BY DEF DeliverLate, Service, vars, device, engine
<1>4. QED
  BY <1>1, <1>2, <1>3 DEF Next, FunctionsOK, IsFunction

LEMMA InvStep ==
  ASSUME Inv, FunctionsOK, [Next]_vars
  PROVE  Inv'
<1>1. CASE \E d \in Devices : LocalAppend(d)
  BY <1>1, LocalAppendStep
<1>2. ASSUME NEW s \in Sessions, Attempt(s)
      PROVE  Inv'
  BY <1>2, StartStep, PullStep, ImportStep, ReconcileStep, SettleStep,
     SavePulledStep, PreflightStep, ScreenStep, ScreenedStep, PushStep,
     ImportPushedStep, RecordVerdictStep, AdvanceStep, EndingSteps DEF Attempt
<1>3. ASSUME NEW s \in Sessions,
             PushUnheard(s) \/ PushLate(s) \/ PushStale(s) \/ Stop(s)
      PROVE  Inv'
  BY <1>3, PushStep, PushLateStep, PushStaleStep, EndingSteps
<1>4. CASE DeliverLate \/ Service
  BY <1>4, DeliverLateStep, ServiceStep
<1>5. CASE UNCHANGED vars
  <2>1. UNCHANGED <<core, local, outbox, cursor, engine, late, stops>>
    BY <1>5 DEF vars, device
  <2>2. LogGrows
    BY <2>1, LogUnchanged
  <2>3. DevicesOK' /\ Grows
    BY <2>1, <2>2, DevicesRest
  <2>4. EnginesOK'
    BY <2>1, <2>3, EnginesRest
  <2>5. QED
    BY <2>1, <2>2, <2>3, <2>4 DEF Inv, LogOK, LogGrows, LateOK
<1>6. QED
  BY <1>1, <1>2, <1>3, <1>4, <1>5 DEF Next

(***************************************************************************)
(* The invariant holds in every reachable state.                           *)
(***************************************************************************)
THEOREM Invariance == Spec => [](Inv /\ FunctionsOK)
<1>1. Init => Inv /\ FunctionsOK
  BY InvInitially
<1>2. Inv /\ FunctionsOK /\ [Next]_vars => (Inv /\ FunctionsOK)'
  BY InvStep, FunctionsStep
<1>3. QED
  BY <1>1, <1>2, PTL DEF Spec

(***************************************************************************)
(* Types: labels, statuses, cursors, and record numbers that exist.        *)
(***************************************************************************)
THEOREM TypeCorrect == Spec => []TypeOK
<1>1. Inv /\ FunctionsOK => TypeOK
  <2>1. SUFFICES ASSUME Inv, FunctionsOK PROVE TypeOK
    OBVIOUS
  <2>2. /\ pc \in [Sessions -> Labels] /\ seen \in [Sessions -> Nat]
        /\ cursor \in [Devices -> Nat]
    BY <2>1 DEF Inv, DevicesOK, DeviceAt, EnginesOK, EnginesTyped, EngineAt,
                FunctionsOK, IsFunction
  <2>3. /\ \A d \in Devices : \A i \in DOMAIN outbox[d] :
             outbox[d][i].status \in Statuses
        /\ \A s \in Sessions :
             writes[s] \cup sends[s] \subseteq DOMAIN outbox[DeviceOf[s]]
    BY <2>1 DEF Inv, DevicesOK, DeviceAt, RecordOK, EnginesOK, EngineAt
  <2>4. QED
    BY <2>1, <2>2, <2>3 DEF Inv, LogOK, TypeOK
<1>2. QED
  BY <1>1, Invariance, PTL

(***************************************************************************)
(* Whatever is pulled, pushed, lost, answered late, retried or imported    *)
(* again, every replica is a prefix of the accepted log.                   *)
(***************************************************************************)
THEOREM ReplicasArePrefixes == Spec => []ReplicaPrefix
<1>1. Inv => ReplicaPrefix
  BY DEF Inv, DevicesOK, DeviceAt, ReplicaPrefix
<1>2. QED
  BY <1>1, Invariance, PTL

(***************************************************************************)
(* Neither the saved cursor nor the one in an engine's memory passes what  *)
(* the device has imported.                                                *)
(***************************************************************************)
THEOREM CursorsStayBehind == Spec => []CursorInReplica
<1>1. Inv => CursorInReplica
  BY DEF Inv, DevicesOK, DeviceAt, EnginesOK, EngineAt, CursorInReplica
<1>2. QED
  BY <1>1, Invariance, PTL
=============================================================================
