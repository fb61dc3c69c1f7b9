----------------------------- MODULE StoreProofs -----------------------------
(***************************************************************************)
(* The files one machine keeps, proved about.  Of the two append-only ones *)
(* (the trace of the skill runtime, the event store) it is shown that what *)
(* a step was told to be stored stays, whoever writes next and wherever a  *)
(* writer fails, and of the trace that an adapter runs only behind the     *)
(* decision allowing it.  Of what is served from them, for any number of   *)
(* requests, versions and fetches: a history answer has what the log had,  *)
(* and the last answer a page is given has what the page was told.  Of     *)
(* core.json, for any number of processes that start, wait and die: it     *)
(* names the core.  The four modules share no state; they are extended     *)
(* together.                                                               *)
(***************************************************************************)
EXTENDS SkillRuntime, EventStore, LocalView, LocalCore, SequenceTheorems,
        WellFoundedInduction, TLAPS

IsSequence(s) == s \in Seq(Range(s))

LEMMA SequenceDomain ==
  ASSUME NEW s, IsSequence(s)
  PROVE  Len(s) \in Nat /\ DOMAIN s = 1..Len(s)
BY LenProperties DEF IsSequence

LEMMA MemberIsSequence ==
  ASSUME NEW S, NEW s \in Seq(S)
  PROVE  IsSequence(s)
BY SeqOfRange DEF IsSequence

LEMMA AppendSequence ==
  ASSUME NEW s, NEW x, IsSequence(s)
  PROVE  /\ IsSequence(Append(s, x))
         /\ Len(Append(s, x)) = Len(s) + 1
         /\ \A i \in 1..Len(s) : Append(s, x)[i] = s[i]
         /\ Append(s, x)[Len(s) + 1] = x
<1>. DEFINE S == Range(s) \cup {x}
<1>1. s \in Seq(S) /\ x \in S
  BY SeqMonotonic DEF IsSequence
<1>. HIDE DEF S
<1>2. Append(s, x) \in Seq(S) /\ Len(Append(s, x)) = Len(s) + 1
  BY <1>1, AppendProperties
<1>3. /\ \A i \in 1..Len(s) : Append(s, x)[i] = s[i]
      /\ Append(s, x)[Len(s) + 1] = x
  BY <1>1, AppendProperties
<1>4. IsSequence(Append(s, x))
  BY <1>2, MemberIsSequence
<1>5. QED
  BY <1>2, <1>3, <1>4

LEMMA PrefixSequence ==
  ASSUME NEW s, IsSequence(s), NEW n \in 0..Len(s)
  PROVE  IsSequence(SubSeq(s, 1, n))
<1>. DEFINE S == Range(s)
<1>1. s \in Seq(S)
  BY DEF IsSequence
<1>. HIDE DEF S
<1>2. SubSeq(s, 1, n) \in Seq(S)
  BY <1>1, SequenceDomain
<1>3. QED
  BY <1>2, MemberIsSequence

LEMMA ConcatSequence ==
  ASSUME NEW s, NEW t, IsSequence(s), IsSequence(t)
  PROVE  /\ IsSequence(s \o t)
         /\ Len(s \o t) = Len(s) + Len(t)
         /\ \A i \in 1..Len(s) : (s \o t)[i] = s[i]
         /\ \A i \in 1..Len(t) : (s \o t)[Len(s) + i] = t[i]
<1>. DEFINE S == Range(s) \cup Range(t)
<1>1. s \in Seq(S) /\ t \in Seq(S) /\ Len(s) \in Nat /\ Len(t) \in Nat
  BY SeqMonotonic, SequenceDomain DEF IsSequence
<1>. HIDE DEF S
<1>2. /\ s \o t \in Seq(S) /\ Len(s \o t) = Len(s) + Len(t)
      /\ \A i \in 1..Len(s) + Len(t) : (s \o t)[i] = IF i <= Len(s) THEN s[i] ELSE t[i - Len(s)]
  BY <1>1, ConcatProperties
<1>3. IsSequence(s \o t)
  BY <1>2, MemberIsSequence
<1>4. ASSUME NEW i \in 1..Len(t) PROVE (s \o t)[Len(s) + i] = t[i]
  <2>1. Len(s) + i \in 1..Len(s) + Len(t) /\ ~(Len(s) + i <= Len(s)) /\ (Len(s) + i) - Len(s) = i
    BY <1>1
  <2>2. QED
    BY <1>2, <2>1
<1>5. QED
  BY <1>1, <1>2, <1>3, <1>4

\* What is left of a sequence from m on.
LEMMA RestSequence ==
  ASSUME NEW s, IsSequence(s), NEW m \in Nat \ {0}
  PROVE  /\ IsSequence(SubSeq(s, m, Len(s)))
         /\ Len(SubSeq(s, m, Len(s))) = IF m <= Len(s) THEN Len(s) - m + 1 ELSE 0
         /\ \A i \in 1..Len(SubSeq(s, m, Len(s))) :
              m + i - 1 \in 1..Len(s) /\ SubSeq(s, m, Len(s))[i] = s[m + i - 1]
<1>. DEFINE n == Len(s)
            rest == SubSeq(s, m, n)
<1>1. n \in Nat /\ \A i \in m..n : s[i] \in Range(s)
  BY SequenceDomain DEF Range
<1>. HIDE DEF n
<1>2. /\ rest \in Seq(Range(s)) /\ Len(rest) = IF m <= n THEN n - m + 1 ELSE 0
      /\ \A i \in 1..n - m + 1 : rest[i] = s[m + i - 1]
  BY <1>1, SubSeqProperties
<1>3. IsSequence(rest)
  BY <1>2, MemberIsSequence
<1>4. \A i \in 1..Len(rest) : i \in 1..n - m + 1 /\ m + i - 1 \in 1..n
  BY <1>1, <1>2
<1>5. QED
  BY <1>2, <1>3, <1>4 DEF n

\* There is a least element in every set of numbers that is not empty.
LEMMA LeastOf ==
  ASSUME NEW T \in SUBSET Nat, T # {}
  PROVE  \E x \in T : \A y \in T : x <= y
<1>1. PICK x \in T : \A y \in T : ~(<<y, x>> \in OpToRel(<, Nat))
  BY WFMin, NatLessThanWellFounded, Zenon
<1>2. \A y \in T : ~(y < x)
  BY <1>1 DEF OpToRel
<1>3. QED
  BY <1>2
-----------------------------------------------------------------------------
(***************************************************************************)
(* The ledger of skill calls.  A record that is there stays, and a call    *)
(* starts behind the decision that allows it.                              *)
(***************************************************************************)
Decision(r, c) == r.type = "decided" /\ r.inv = c /\ r.body.status = "allowed"

Allowed(records, c) == \E k \in 1..Len(records) : Decision(records[k], c)

Started(records, c) == \E j \in 1..Len(records) : records[j].type = "started" /\ records[j].inv = c

StartsAllowed(records) ==
  \A j \in 1..Len(records) : records[j].type = "started" =>
    \E k \in 1..Len(records) : k < j /\ Decision(records[k], records[j].inv)

\* What a ledger that has grown still holds.
Keeps(records, grown) ==
  /\ IsSequence(grown)
  /\ \A c : Allowed(records, c) => Allowed(grown, c)
  /\ \A c : Started(records, c) => Started(grown, c)

\* And if all it started before was allowed, all is.
Adds(records, grown) == Keeps(records, grown) /\ (StartsAllowed(records) => StartsAllowed(grown))

Fits(records, r) == r.type = "started" => Allowed(records, r.inv)

LEMMA SameAdds ==
  ASSUME NEW records, IsSequence(records)
  PROVE  Adds(records, records)
BY DEF Adds, Keeps

LEMMA AppendKeeps ==
  ASSUME NEW records, IsSequence(records), NEW r
  PROVE  /\ Keeps(records, Append(records, r))
         /\ Fits(records, r) => Adds(records, Append(records, r))
<1>. DEFINE grown == Append(records, r)
            n == Len(records)
<1>1. /\ IsSequence(grown) /\ Len(grown) = n + 1 /\ n \in Nat /\ grown[n + 1] = r
      /\ \A i \in 1..n : grown[i] = records[i]
  BY AppendSequence, SequenceDomain
<1>. HIDE DEF grown
<1>2. \A c : Allowed(records, c) => Allowed(grown, c)
  BY <1>1 DEF Allowed
<1>3. \A c : Started(records, c) => Started(grown, c)
  BY <1>1 DEF Started
<1>4. ASSUME StartsAllowed(records), Fits(records, r) PROVE StartsAllowed(grown)
  <2>. SUFFICES ASSUME NEW j \in 1..n + 1, grown[j].type = "started"
                PROVE  \E k \in 1..n + 1 : k < j /\ Decision(grown[k], grown[j].inv)
    BY <1>1 DEF StartsAllowed
  <2>1. CASE j \in 1..n
    <3>1. PICK k \in 1..n : k < j /\ Decision(records[k], records[j].inv)
      BY <1>1, <1>4, <2>1 DEF StartsAllowed
    <3>2. QED
      BY <1>1, <2>1, <3>1
  <2>2. CASE j = n + 1
    <3>1. PICK k \in 1..n : Decision(records[k], r.inv)
      BY <1>1, <1>4, <2>2 DEF Allowed, Fits
    <3>2. QED
      BY <1>1, <2>2, <3>1
  <2>3. QED
    BY <1>1, <2>1, <2>2
<1>5. Keeps(records, grown) /\ (Fits(records, r) => Adds(records, grown))
  BY <1>1, <1>2, <1>3, <1>4 DEF Keeps, Adds
<1>6. QED
  BY <1>5 DEF grown

LEMMA KeepsTransitive ==
  ASSUME NEW a, NEW b, NEW c, Adds(a, b), Keeps(b, c)
  PROVE  Keeps(a, c) /\ (Adds(b, c) => Adds(a, c))
BY DEF Keeps, Adds

\* A step that is stored is there as it was asked for.
LEMMA StoredStep ==
  ASSUME NEW records, IsSequence(records), NEW r, NEW result, result = AppendIdempotent(records, r)
  PROVE  /\ result.records = records \/ result.records = Append(records, r)
         /\ result.ok /\ r.type # "root" =>
              \E k \in 1..Len(result.records) : result.records[k] = r
<1>. DEFINE hits == {k \in DOMAIN records :
                 ExternalKey(records[k]) = ExternalKey(r) \/ RecordId(records[k]) = RecordId(r)}
            first == CHOOSE k \in hits : \A j \in hits : k <= j
<1>1. CASE hits = {}
  <2>1. result.records = Append(records, r)
    BY <1>1 DEF AppendIdempotent
  <2>2. QED
    BY <2>1, AppendSequence, SequenceDomain
<1>2. CASE hits # {}
  <2>1. result.records = records /\ result.ok = SameRecord(records[first], r)
    BY <1>2 DEF AppendIdempotent
  <2>2. hits \in SUBSET Nat /\ hits \subseteq 1..Len(records)
    BY SequenceDomain
  <2>. HIDE DEF hits
  <2>3. first \in hits
    <3>1. \E k \in hits : \A j \in hits : k <= j
      BY <1>2, <2>2, LeastOf
    <3>2. QED
      BY <3>1
  <2>. HIDE DEF first
  <2>4. ASSUME SameRecord(records[first], r), r.type # "root" PROVE records[first] = r
    BY <2>4 DEF SameRecord, EqualInvocationRoot
  <2>5. QED
    BY <2>1, <2>2, <2>3, <2>4
<1>3. QED
  BY <1>1, <1>2

LEMMA IdempotentKeeps ==
  ASSUME NEW records, IsSequence(records), NEW r, NEW result, result = AppendIdempotent(records, r)
  PROVE  /\ Keeps(records, result.records)
         /\ Fits(records, r) => Adds(records, result.records)
<1>1. result.records = records \/ result.records = Append(records, r)
  BY StoredStep
<1>2. Keeps(records, records) /\ Adds(records, records)
  BY SameAdds DEF Adds
<1>3. QED
  BY <1>1, <1>2, AppendKeeps

\* What the two appends of a step leave, and what it means that they succeed.
LEMMA RecordedKeeps ==
  ASSUME IsSequence(ledger.records), NEW s, NEW type, NEW body, type # "root",
         NEW result, result = Recorded(s, type, body)
  PROVE  /\ Keeps(ledger.records, result.records)
         /\ type # "started" \/ Allowed(ledger.records, serving[s].call) =>
              Adds(ledger.records, result.records)
         /\ result.ok => \E k \in 1..Len(result.records) :
              /\ result.records[k].type = type /\ result.records[k].inv = serving[s].call
              /\ result.records[k].body = body
<1>. DEFINE v == serving[s]
            top == [inv |-> v.call, type |-> "root", trace |-> TraceOf[v.call],
                    body |-> Function(v.decision), at |-> v.at]
            root == EnsureRoot(s)
            r == [inv |-> v.call, type |-> type, trace |-> TraceOf[v.call], body |-> body,
                  at |-> RootOf(root.records, v.call).at]
<1>1. top.type = "root" /\ root = AppendIdempotent(ledger.records, top)
  BY DEF EnsureRoot, Stored, WithoutTail
<1>2. result = IF ~root.ok THEN root ELSE AppendIdempotent(root.records, r)
  BY DEF Recorded
<1>3. r.type = type /\ r.inv = v.call /\ r.body = body
  OBVIOUS
<1>. HIDE DEF top, root, r
<1>4. Adds(ledger.records, root.records) /\ Keeps(ledger.records, root.records)
  BY <1>1, IdempotentKeeps DEF Fits, Adds
<1>5. CASE ~root.ok
  BY <1>2, <1>4, <1>5
<1>6. CASE root.ok
  <2>1. /\ IsSequence(root.records) /\ result = AppendIdempotent(root.records, r)
        /\ type # "started" \/ Allowed(ledger.records, serving[s].call) => Fits(root.records, r)
    BY <1>2, <1>3, <1>4, <1>6 DEF Keeps, Fits
  <2>2. Keeps(root.records, result.records) /\ (Fits(root.records, r) => Adds(root.records, result.records))
    BY <2>1, IdempotentKeeps
  <2>3. result.ok => \E k \in 1..Len(result.records) : result.records[k] = r
    BY <1>3, <2>1, StoredStep
  <2>4. QED
    BY <1>3, <1>4, <2>1, <2>2, <2>3, KeepsTransitive
<1>7. QED
  BY <1>5, <1>6

DecidedPhases ==
  {"decided", "wait", "start", "run", "ran", "audit", "audited", "promote", "answer"}
AllowedPhases == {"start", "run", "ran", "audit", "audited", "promote"}
StartedPhases == AllowedPhases \ {"start"}

\* A call that was decided on has all its fields.
Decided(x) ==
  /\ x \in [phase : DecidedPhases, call : {x.call}, at : {x.at}, decision : {x.decision},
            result : {x.result}, audited : {x.audited}]
  /\ x.decision.status \in {"denied", "approval_required", "allowed"}

ShapeOK(x) == x.phase \notin {"free", "evaluate"} => Decided(x)

ServingOK(x, records) ==
  /\ x.phase \in AllowedPhases => Allowed(records, x.call)
  /\ x.phase \in StartedPhases => Started(records, x.call)

SkillInv ==
  /\ IsSequence(ledger.records)
  /\ serving = [s \in Servers |-> serving[s]]
  /\ \A s \in Servers : ShapeOK(serving[s])
  /\ ~shortened => /\ StartsAllowed(ledger.records)
                   /\ \A s \in Servers : ServingOK(serving[s], ledger.records)
                   /\ \A c \in ran : Started(ledger.records, c)
-----------------------------------------------------------------------------
LEMMA PhaseOfCall ==
  ASSUME NEW x, Decided(x), NEW phase \in DecidedPhases, NEW next, next = [x EXCEPT !.phase = phase]
  PROVE  Decided(next) /\ next.phase = phase /\ next.call = x.call /\ next.decision = x.decision
<1>1. next = [phase |-> phase, call |-> x.call, at |-> x.at, decision |-> x.decision,
              result |-> x.result, audited |-> x.audited]
  BY DEF Decided
<1>2. QED
  BY <1>1 DEF Decided

\* A step of one server, that leaves the ledger as it is or adds to it.
LEMMA ServerKeepsLedger ==
  ASSUME SkillInv, NEW s \in Servers, NEW next, serving' = [serving EXCEPT ![s] = next],
         Keeps(ledger.records, ledger'.records), ~shortened => Adds(ledger.records, ledger'.records),
         shortened' = shortened, ShapeOK(next), ~shortened => ServingOK(next, ledger'.records),
         ~shortened => \A c \in ran' \ ran : Started(ledger'.records, c)
  PROVE  SkillInv'
<1>1. /\ \A q \in Servers : serving'[q] = IF q = s THEN next ELSE serving[q]
      /\ serving' = [q \in Servers |-> serving'[q]]
  BY DEF SkillInv
<1>2. \A q \in Servers : ShapeOK(serving'[q])
  BY <1>1 DEF SkillInv
<1>3. ASSUME ~shortened'
      PROVE  /\ StartsAllowed(ledger'.records)
             /\ \A q \in Servers : ServingOK(serving'[q], ledger'.records)
             /\ \A c \in ran' : Started(ledger'.records, c)
  <2>1. StartsAllowed(ledger'.records)
    BY <1>3 DEF SkillInv, Adds
  <2>2. ASSUME NEW q \in Servers PROVE ServingOK(serving'[q], ledger'.records)
    BY <1>1, <1>3 DEF SkillInv, Keeps, ServingOK
  <2>3. ASSUME NEW c \in ran' PROVE Started(ledger'.records, c)
    BY <1>3 DEF SkillInv, Keeps
  <2>4. QED
    BY <2>1, <2>2, <2>3
<1>4. IsSequence(ledger'.records)
  BY DEF Keeps
<1>5. QED
  BY <1>1, <1>2, <1>3, <1>4 DEF SkillInv

\* A server that is free or waits for its decision has recorded nothing.
LEMMA EarlyCall ==
  ASSUME NEW x, NEW records, x.phase \in {"free", "evaluate"}
  PROVE  ShapeOK(x) /\ ServingOK(x, records)
BY DEF ShapeOK, ServingOK, AllowedPhases, StartedPhases

LEMMA FreeKeepsLedger ==
  ASSUME SkillInv, NEW s \in Servers, Goes(s, Free), shortened' = shortened, ran' = ran,
         Adds(ledger.records, ledger'.records)
  PROVE  SkillInv'
<1>. DEFINE next == Free
<1>1. serving' = [serving EXCEPT ![s] = next] /\ next.phase = "free"
  BY DEF Goes, Free
<1>. HIDE DEF next
<1>2. ShapeOK(next) /\ ServingOK(next, ledger'.records)
  BY <1>1, EarlyCall
<1>3. QED
  BY <1>1, <1>2, ServerKeepsLedger DEF Adds

LEMMA HandleKeepsLedger ==
  ASSUME SkillInv, NEW s \in Servers, NEW c \in Calls, HandleToolsCall(s, c)
  PROVE  SkillInv'
<1>. DEFINE next == [phase |-> "evaluate", call |-> c, at |-> received + 1]
<1>1. /\ serving' = [serving EXCEPT ![s] = next] /\ next.phase = "evaluate"
      /\ UNCHANGED <<ledger, shortened, ran>>
  BY DEF HandleToolsCall, Goes, ledgerVars
<1>. HIDE DEF next
<1>2. ShapeOK(next) /\ ServingOK(next, ledger'.records)
  BY <1>1, EarlyCall
<1>3. Adds(ledger.records, ledger'.records)
  BY <1>1, SameAdds DEF SkillInv
<1>4. QED
  BY <1>1, <1>2, <1>3, ServerKeepsLedger DEF Adds

LEMMA InvokeKeepsLedger ==
  ASSUME SkillInv, NEW s \in Servers, Invoke(s)
  PROVE  SkillInv'
<1>. DEFINE good == TRUE
            call == serving[s].call
            at == serving[s].at
            decision == Evaluate(call)
            next == [phase |-> "decided", call |-> call, at |-> at, decision |-> decision,
                     result |-> "none", audited |-> good]
<1>1. /\ serving' = [serving EXCEPT ![s] = next]
      /\ UNCHANGED <<ledger, shortened, ran>>
  BY DEF Invoke, Goes, ledgerVars
<1>2. decision.status \in {"denied", "approval_required", "allowed"}
  BY DEF Evaluate
<1>. HIDE DEF good, call, at, decision
<1>3. Decided(next) /\ next.phase = "decided"
  BY <1>2 DEF Decided, DecidedPhases
<1>. HIDE DEF next
<1>4. ShapeOK(next) /\ ServingOK(next, ledger'.records)
  BY <1>3 DEF ShapeOK, ServingOK, AllowedPhases, StartedPhases
<1>5. Adds(ledger.records, ledger'.records)
  BY <1>1, SameAdds DEF SkillInv
<1>6. QED
  BY <1>1, <1>4, <1>5, ServerKeepsLedger DEF Adds

\* A step that is recorded; the call goes on only if it is.
LEMMA TraceKeepsLedger ==
  ASSUME SkillInv, NEW s \in Servers, NEW type, NEW body, NEW to \in DecidedPhases,
         Trace(s, type, body, to), type # "root", serving[s].phase \notin {"free", "evaluate"},
         type = "started" => serving[s].phase \in AllowedPhases,
         to \in AllowedPhases =>
           serving[s].phase \in AllowedPhases \/ (type = "decided" /\ body.status = "allowed"),
         to \in StartedPhases => serving[s].phase \in StartedPhases \/ type = "started"
  PROVE  SkillInv'
<1>. DEFINE x == serving[s]
            result == Recorded(s, type, body)
            phase == IF result.ok THEN to ELSE "answer"
            next == [x EXCEPT !.phase = phase]
<1>1. /\ ledger'.records = result.records /\ shortened' = shortened /\ ran' = ran
      /\ serving' = [serving EXCEPT ![s] = next]
  BY DEF Trace, Appended, GoesTo, Goes
<1>2. /\ Keeps(ledger.records, result.records)
      /\ type # "started" \/ Allowed(ledger.records, x.call) => Adds(ledger.records, result.records)
      /\ result.ok => \E k \in 1..Len(result.records) :
              /\ result.records[k].type = type /\ result.records[k].inv = x.call
              /\ result.records[k].body = body
  BY RecordedKeeps DEF SkillInv
<1>3. phase \in DecidedPhases /\ (~result.ok => phase = "answer") /\ (result.ok => phase = to)
  BY DEF DecidedPhases
<1>. HIDE DEF phase, result
<1>4. Decided(x)
  BY DEF SkillInv, ShapeOK
<1>5. Decided(next) /\ next.phase = phase /\ next.call = x.call
  <2>. HIDE DEF x
  <2>1. QED
    BY <1>3, <1>4, PhaseOfCall
<1>. HIDE DEF next
<1>6. ShapeOK(next)
  BY <1>5 DEF ShapeOK
<1>7. ASSUME ~shortened
      PROVE  Adds(ledger.records, ledger'.records) /\ ServingOK(next, ledger'.records)
  <2>1. ServingOK(x, ledger.records)
    BY <1>7 DEF SkillInv
  <2>. HIDE DEF x
  <2>2. Adds(ledger.records, result.records)
    BY <1>2, <2>1 DEF ServingOK, x
  <2>3. ServingOK(x, result.records)
    BY <1>2, <2>1 DEF ServingOK, Keeps
  <2>4. phase \in AllowedPhases \/ phase \in StartedPhases => result.ok /\ phase = to
    BY <1>3 DEF AllowedPhases, StartedPhases
  <2>5. next.phase \in AllowedPhases => Allowed(result.records, next.call)
    <3>. SUFFICES ASSUME phase \in AllowedPhases PROVE Allowed(result.records, x.call)
      BY <1>5
    <3>1. CASE x.phase \in AllowedPhases
      BY <2>3, <3>1 DEF ServingOK
    <3>2. CASE type = "decided" /\ body.status = "allowed"
      BY <1>2, <2>4, <3>2 DEF Allowed, Decision
    <3>3. QED
      BY <2>4, <3>1, <3>2 DEF x
  <2>6. next.phase \in StartedPhases => Started(result.records, next.call)
    <3>. SUFFICES ASSUME phase \in StartedPhases PROVE Started(result.records, x.call)
      BY <1>5
    <3>1. CASE x.phase \in StartedPhases
      BY <2>3, <3>1 DEF ServingOK
    <3>2. CASE type = "started"
      BY <1>2, <2>4, <3>2 DEF Started
    <3>3. QED
      BY <2>4, <3>1, <3>2 DEF x
  <2>7. QED
    BY <1>1, <2>2, <2>5, <2>6 DEF ServingOK
<1>8. QED
  BY <1>1, <1>2, <1>6, <1>7, ServerKeepsLedger

LEMMA StepsKeepLedger ==
  ASSUME SkillInv, NEW s \in Servers,
         \/ PolicyDecision(s) \/ ApprovalWait(s) \/ AdapterStarted(s)
         \/ AdapterFinished(s) \/ AuditResult(s) \/ Promote(s)
  PROVE  SkillInv'
<1>. DEFINE phase == serving[s].phase
<1>1. CASE PolicyDecision(s)
  <2>. DEFINE decision == serving[s].decision
              to == CASE decision.status = "denied" -> "answer"
                      [] decision.status = "approval_required" -> "wait"
                      [] OTHER -> "start"
  <2>1. phase = "decided" /\ Trace(s, "decided", decision, to)
    BY <1>1 DEF PolicyDecision, Now
  <2>2. decision.status \in {"denied", "approval_required", "allowed"}
    BY <2>1 DEF SkillInv, ShapeOK, Decided
  <2>3. /\ to \in DecidedPhases /\ (to \in AllowedPhases => decision.status = "allowed")
        /\ to \notin StartedPhases
    BY <2>2 DEF DecidedPhases, AllowedPhases, StartedPhases
  <2>. HIDE DEF to, decision
  <2>4. QED
    BY <2>1, <2>3, TraceKeepsLedger
<1>2. CASE ApprovalWait(s)
  <2>1. phase = "wait" /\ Trace(s, "approval.requested", "waiting", "answer")
    BY <1>2 DEF ApprovalWait, Now
  <2>2. "answer" \in DecidedPhases /\ "answer" \notin AllowedPhases /\ "answer" \notin StartedPhases
    BY DEF DecidedPhases, AllowedPhases, StartedPhases
  <2>3. QED
    BY <2>1, <2>2, TraceKeepsLedger
<1>3. CASE AdapterStarted(s)
  <2>1. phase = "start" /\ Trace(s, "started", "running", "run")
    BY <1>3 DEF AdapterStarted, Now
  <2>2. "run" \in DecidedPhases /\ "start" \in AllowedPhases
    BY DEF DecidedPhases, AllowedPhases
  <2>3. QED
    BY <2>1, <2>2, TraceKeepsLedger
<1>4. CASE AdapterFinished(s)
  <2>1. phase = "ran" /\ Trace(s, "finished", serving[s].result, "audit")
    BY <1>4 DEF AdapterFinished, Now
  <2>2. "audit" \in DecidedPhases /\ "ran" \in AllowedPhases /\ "ran" \in StartedPhases
    BY DEF DecidedPhases, AllowedPhases, StartedPhases
  <2>3. QED
    BY <2>1, <2>2, TraceKeepsLedger
<1>5. CASE AuditResult(s)
  <2>. DEFINE body == <<serving[s].audited, serving[s].result>>
              to == IF serving[s].audited /\ serving[s].result # "failed" /\ serving[s].call \in Promoted
                    THEN "promote" ELSE "answer"
  <2>1. phase = "audited" /\ Trace(s, "audit.recorded", body, to)
    BY <1>5 DEF AuditResult, Now
  <2>2. to \in DecidedPhases /\ "audited" \in AllowedPhases /\ "audited" \in StartedPhases
    BY DEF DecidedPhases, AllowedPhases, StartedPhases
  <2>. HIDE DEF to, body
  <2>3. QED
    BY <2>1, <2>2, TraceKeepsLedger
<1>6. CASE Promote(s)
  <2>1. phase = "promote" /\ Trace(s, "evidence.candidate", serving[s].result, "answer")
    BY <1>6 DEF Promote, Now
  <2>2. "answer" \in DecidedPhases /\ "answer" \notin AllowedPhases /\ "answer" \notin StartedPhases
    BY DEF DecidedPhases, AllowedPhases, StartedPhases
  <2>3. QED
    BY <2>1, <2>2, TraceKeepsLedger
<1>7. QED
  BY <1>1, <1>2, <1>3, <1>4, <1>5, <1>6

\* The last two steps that change a call: its adapter runs, and the sink keeps the audit.
WithResult(x, to, result) == [x EXCEPT !.phase = to, !.result = result]
WithAudit(x, to, audited) == [x EXCEPT !.phase = to, !.audited = audited]

LEMMA FieldsOfCall ==
  ASSUME NEW x, Decided(x), NEW to \in DecidedPhases, NEW value, NEW next,
         next = WithResult(x, to, value) \/ next = WithAudit(x, to, value)
  PROVE  Decided(next) /\ next.phase = to /\ next.call = x.call
<1>1. CASE next = WithResult(x, to, value)
  <2>1. next = [phase |-> to, call |-> x.call, at |-> x.at, decision |-> x.decision,
                result |-> value, audited |-> x.audited]
    BY <1>1 DEF Decided, WithResult
  <2>2. QED
    BY <2>1 DEF Decided
<1>2. CASE next = WithAudit(x, to, value)
  <2>1. next = [phase |-> to, call |-> x.call, at |-> x.at, decision |-> x.decision,
                result |-> x.result, audited |-> value]
    BY <1>2 DEF Decided, WithAudit
  <2>2. QED
    BY <2>1 DEF Decided
<1>3. QED
  BY <1>1, <1>2

LEMMA AdapterKeepsLedger ==
  ASSUME SkillInv, NEW s \in Servers, InvokeAdapter(s)
  PROVE  SkillInv'
<1>. DEFINE x == serving[s]
<1>1. PICK output : serving' = [serving EXCEPT ![s] = [x EXCEPT !.phase = "ran", !.result = output]]
  BY DEF InvokeAdapter, Goes
<1>. DEFINE next == [x EXCEPT !.phase = "ran", !.result = output]
<1>2. /\ serving' = [serving EXCEPT ![s] = next] /\ x.phase = "run"
      /\ UNCHANGED <<ledger, shortened>> /\ ran' = ran \cup {x.call}
  BY <1>1 DEF InvokeAdapter, Now, ledgerVars
<1>3. "ran" \in DecidedPhases /\ Decided(x) /\ (~shortened => ServingOK(x, ledger.records))
  BY <1>2 DEF SkillInv, ShapeOK, DecidedPhases
<1>4. Decided(next) /\ next.phase = "ran" /\ next.call = x.call
  <2>1. next = WithResult(x, "ran", output)
    BY DEF WithResult
  <2>. HIDE DEF next, x
  <2>2. QED
    BY <1>3, <2>1, FieldsOfCall
<1>. HIDE DEF next, x
<1>5. ShapeOK(next) /\ (~shortened => ServingOK(next, ledger'.records) /\ Started(ledger.records, x.call))
  BY <1>2, <1>3, <1>4 DEF ShapeOK, ServingOK, AllowedPhases, StartedPhases
<1>6. Adds(ledger.records, ledger'.records)
  BY <1>2, SameAdds DEF SkillInv
<1>7. ~shortened => \A c \in ran' \ ran : Started(ledger'.records, c)
  BY <1>2, <1>5
<1>8. QED
  BY <1>2, <1>5, <1>6, <1>7, ServerKeepsLedger DEF Adds

LEMMA AuditKeepsLedger ==
  ASSUME SkillInv, NEW s \in Servers, RecordSkillCall(s)
  PROVE  SkillInv'
<1>. DEFINE x == serving[s]
            r == [inv |-> x.call, type |-> "audit.persisted", trace |-> TraceOf[x.call],
                  body |-> x.result, at |-> x.at]
            result == AppendIdempotent(ledger.records, r)
            next == [x EXCEPT !.phase = "audited", !.audited = result.ok]
<1>1. /\ serving' = [serving EXCEPT ![s] = next] /\ x.phase = "audit"
      /\ ledger'.records = result.records /\ shortened' = shortened /\ ran' = ran
  BY DEF RecordSkillCall, Now, Goes, Appended, Stored, WithoutTail
<1>2. r.type = "audit.persisted"
  OBVIOUS
<1>. HIDE DEF r
<1>3. Adds(ledger.records, ledger'.records)
  <2>. HIDE DEF result
  <2>1. QED
    BY <1>1, <1>2, IdempotentKeeps DEF SkillInv, Fits, result
<1>. HIDE DEF result
<1>4. "audited" \in DecidedPhases /\ Decided(x) /\ (~shortened => ServingOK(x, ledger.records))
  BY <1>1 DEF SkillInv, ShapeOK, DecidedPhases
<1>5. Decided(next) /\ next.phase = "audited" /\ next.call = x.call
  <2>. DEFINE ok == result.ok
  <2>1. next = WithAudit(x, "audited", ok)
    BY DEF WithAudit
  <2>. HIDE DEF next, x, ok
  <2>2. QED
    BY <1>4, <2>1, FieldsOfCall
<1>. HIDE DEF next, x
<1>6. ShapeOK(next) /\ (~shortened => ServingOK(next, ledger'.records))
  BY <1>1, <1>3, <1>4, <1>5 DEF ShapeOK, ServingOK, AllowedPhases, StartedPhases, Adds, Keeps
<1>7. QED
  BY <1>1, <1>3, <1>6, ServerKeepsLedger DEF Adds

LEMMA EndKeepsLedger ==
  ASSUME SkillInv, NEW s \in Servers, Answer(s) \/ ServerDies(s)
  PROVE  SkillInv'
<1>. DEFINE x == serving[s]
            r == [inv |-> x.call, type |-> "root", trace |-> TraceOf[x.call],
                  body |-> Function(x.decision), at |-> x.at]
            root == AppendIdempotent(ledger.records, r)
<1>1. /\ Goes(s, Free) /\ shortened' = shortened /\ ran' = ran
      /\ ledger'.records = ledger.records \/ ledger'.records = root.records
  BY DEF Answer, ServerDies, TornWrite, EnsureRoot, Stored, WithoutTail, ledgerVars
<1>2. r.type = "root"
  OBVIOUS
<1>. HIDE DEF r, root
<1>3. Adds(ledger.records, ledger.records) /\ Adds(ledger.records, root.records)
  BY <1>2, SameAdds, IdempotentKeeps DEF SkillInv, Fits, root
<1>4. QED
  BY <1>1, <1>3, FreeKeepsLedger

\* A step that is not of a server.
LEMMA OthersKeepLedger ==
  ASSUME SkillInv, serving' = serving, ran' = ran, shortened' = shortened,
         Adds(ledger.records, ledger'.records)
  PROVE  SkillInv'
<1>1. ~shortened => /\ StartsAllowed(ledger'.records)
                    /\ \A s \in Servers : ServingOK(serving[s], ledger'.records)
                    /\ \A c \in ran : Started(ledger'.records, c)
  BY DEF SkillInv, Adds, Keeps, ServingOK
<1>2. QED
  BY <1>1 DEF SkillInv, Adds, Keeps

LEMMA RoomKeepsLedger ==
  ASSUME SkillInv, NEW event, NEW number, NormalizeMatrix(event, number),
         serving' = serving, ran' = ran
  PROVE  SkillInv'
<1>. DEFINE r == [inv |-> event, type |-> "matrix", trace |-> event, body |-> number, at |-> 0]
            result == AppendIdempotent(ledger.records, r)
<1>1. result = [ok |-> result.ok, records |-> result.records]
  BY DEF AppendIdempotent
<1>. HIDE DEF result
<1>2. /\ ledger'.records = result.records \/ ledger'.records = ledger.records
      /\ shortened' = shortened
  BY <1>1 DEF NormalizeMatrix, Appended, Stored, WithoutTail, result
<1>3. r.type = "matrix"
  OBVIOUS
<1>. HIDE DEF r
<1>4. Adds(ledger.records, ledger.records) /\ Adds(ledger.records, result.records)
  BY <1>3, SameAdds, IdempotentKeeps DEF SkillInv, Fits, result
<1>5. QED
  BY <1>2, <1>4, OthersKeepLedger

\* Removing a tail is the one step that shortens the ledger, and says so.
LEMMA RepairKeepsLedger ==
  ASSUME SkillInv, TornRepair, serving' = serving, ran' = ran
  PROVE  SkillInv'
<1>1. PICK n \in 0..Len(ledger.records) : ledger'.records = SubSeq(ledger.records, 1, n)
  BY DEF TornRepair
<1>2. IsSequence(ledger'.records) /\ shortened'
  BY <1>1, PrefixSequence DEF SkillInv, TornRepair
<1>3. QED
  BY <1>2 DEF SkillInv

LEMMA SkillStep ==
  ASSUME SkillInv, [SkillNext]_skillVars
  PROVE  SkillInv'
<1>1. CASE \E s \in Servers, c \in Calls : HandleToolsCall(s, c)
  BY <1>1, HandleKeepsLedger
<1>2. CASE \E s \in Servers : Invoke(s)
  BY <1>2, InvokeKeepsLedger
<1>3. CASE \E s \in Servers : \/ PolicyDecision(s) \/ ApprovalWait(s) \/ AdapterStarted(s)
                             \/ AdapterFinished(s) \/ AuditResult(s) \/ Promote(s)
  BY <1>3, StepsKeepLedger
<1>4. CASE \E s \in Servers : InvokeAdapter(s)
  BY <1>4, AdapterKeepsLedger
<1>5. CASE \E s \in Servers : RecordSkillCall(s)
  BY <1>5, AuditKeepsLedger
<1>6. CASE \E s \in Servers : Answer(s) \/ ServerDies(s)
  BY <1>6, EndKeepsLedger
<1>7. CASE Governs \/ UNCHANGED skillVars
  <2>1. UNCHANGED <<ledger, shortened, serving, ran>>
    BY <1>7 DEF Governs, skillVars, ledgerVars
  <2>2. Adds(ledger.records, ledger'.records)
    BY <2>1, SameAdds DEF SkillInv
  <2>3. QED
    BY <2>1, <2>2, OthersKeepLedger
<1>8. CASE LedgerNext /\ UNCHANGED <<broken, approved, serving, received, ran>>
  BY <1>8, RoomKeepsLedger, RepairKeepsLedger DEF LedgerNext
<1>9. QED
  BY <1>1, <1>2, <1>3, <1>4, <1>5, <1>6, <1>7, <1>8 DEF SkillNext

\* The adapter of a call runs only behind the allowing decision and the start its
\* ledger holds, in every state that can be reached: of the runtime's Invoke, that
\* makes its decision on the state of the moment and may be called again under the
\* same id, and of the trace it records every step in.
THEOREM AdaptersRanAsDecided == SkillSpec => []RanAsDecided
<1>1. SkillInit => SkillInv
  <2>. SUFFICES ASSUME SkillInit PROVE SkillInv
    OBVIOUS
  <2>1. ledger.records = <<>> /\ ran = {} /\ serving = [s \in Servers |-> Free]
    BY DEF SkillInit, LedgerInit, NoRecords
  <2>2. IsSequence(<<>>) /\ Len(<<>>) = 0
    BY DEF IsSequence
  <2>3. \A s \in Servers : serving[s].phase = "free"
    BY <2>1 DEF Free
  <2>4. \A s \in Servers : ShapeOK(serving[s]) /\ ServingOK(serving[s], ledger.records)
    BY <2>3, EarlyCall
  <2>5. QED
    BY <2>1, <2>2, <2>4 DEF SkillInv, StartsAllowed
<1>2. SkillInv /\ [SkillNext]_skillVars => SkillInv'
  BY SkillStep
<1>3. SkillInv => RanAsDecided
  <2>. SUFFICES ASSUME SkillInv, ~shortened, NEW c \in ran
                PROVE  \E k, j \in DOMAIN ledger.records :
                         /\ k < j
                         /\ ledger.records[k].inv = c /\ ledger.records[j].inv = c
                         /\ ledger.records[k].type = "decided"
                         /\ ledger.records[k].body.status = "allowed"
                         /\ ledger.records[j].type = "started"
    BY DEF RanAsDecided
  <2>1. DOMAIN ledger.records = 1..Len(ledger.records)
    BY SequenceDomain DEF SkillInv
  <2>2. PICK j \in 1..Len(ledger.records) :
          ledger.records[j].type = "started" /\ ledger.records[j].inv = c
    BY DEF SkillInv, Started
  <2>3. PICK k \in 1..Len(ledger.records) : k < j /\ Decision(ledger.records[k], c)
    BY <2>2 DEF SkillInv, StartsAllowed
  <2>4. QED
    BY <2>1, <2>2, <2>3 DEF Decision
<1>4. QED
  BY <1>1, <1>2, <1>3, PTL DEF SkillSpec
-----------------------------------------------------------------------------
(***************************************************************************)
(* The event store.  The lines of the file are numbered, their ids are     *)
(* distinct, and every step that writes adds lines of which both hold      *)
(* again; so does what a step that fails leaves of them.                   *)
(***************************************************************************)
Numbered(events) == \A k \in 1..Len(events) : events[k].sequence = k

Distinct(events) == \A i, j \in 1..Len(events) : events[i].id = events[j].id => i = j

\* Lines that may follow those of the file.
MayFollow(new, events) ==
  /\ IsSequence(new)
  /\ \A k \in 1..Len(new) : new[k].sequence = Len(events) + k
  /\ Distinct(new)
  /\ \A k \in 1..Len(new), j \in 1..Len(events) : new[k].id # events[j].id

Placed(a, events) == a.sequence \in 1..Len(events) /\ events[a.sequence] = a

StoreInv ==
  /\ file = [events |-> file.events, end |-> file.end]
  /\ IsSequence(file.events) /\ Numbered(file.events) /\ Distinct(file.events)
  /\ Readable => \A a \in answered : Placed(a, file.events)
  /\ \A a, b \in answered : a.id = b.id => a = b

LEMMA HistoryGrows ==
  ASSUME NEW events, IsSequence(events), Numbered(events), Distinct(events),
         NEW new, MayFollow(new, events)
  PROVE  LET grown == events \o new
         IN  /\ IsSequence(grown) /\ Numbered(grown) /\ Distinct(grown)
             /\ \A a : Placed(a, events) => Placed(a, grown)
             /\ \A k \in 1..Len(new) : Placed(new[k], grown)
<1>. DEFINE grown == events \o new
            n == Len(events)
            m == Len(new)
<1>1. /\ n \in Nat /\ m \in Nat /\ IsSequence(grown) /\ Len(grown) = n + m
      /\ \A i \in 1..n : grown[i] = events[i]
      /\ \A i \in 1..m : grown[n + i] = new[i]
  BY ConcatSequence, SequenceDomain DEF MayFollow
<1>. HIDE DEF grown
<1>2. \A i \in 1..n + m : i \in 1..n \/ \E k \in 1..m : i = n + k
  <2>. SUFFICES ASSUME NEW i \in 1..n + m, i \notin 1..n PROVE \E k \in 1..m : i = n + k
    OBVIOUS
  <2>1. i - n \in 1..m /\ i = n + (i - n)
    BY <1>1
  <2>2. QED
    BY <2>1
<1>3. /\ \A i \in 1..n : events[i].sequence = i
      /\ \A k \in 1..m : new[k].sequence = n + k
      /\ \A i, j \in 1..n : events[i].id = events[j].id => i = j
      /\ \A k, l \in 1..m : new[k].id = new[l].id => k = l
      /\ \A k \in 1..m, j \in 1..n : new[k].id # events[j].id
  BY DEF Numbered, Distinct, MayFollow
<1>. HIDE DEF n, m
<1>4. /\ \A i \in 1..n + m : grown[i].sequence = i
      /\ \A i, j \in 1..n + m : grown[i].id = grown[j].id => i = j
  <2>1. ASSUME NEW i \in 1..n + m PROVE grown[i].sequence = i
    <3>1. CASE i \in 1..n
      BY <1>1, <1>3, <3>1
    <3>2. CASE \E k \in 1..m : i = n + k
      <4>1. PICK k \in 1..m : i = n + k
        BY <3>2
      <4>2. grown[i] = new[k] /\ new[k].sequence = i
        BY <1>1, <1>3, <4>1
      <4>3. QED
        BY <4>2
    <3>3. QED
      BY <1>2, <3>1, <3>2
  <2>2. ASSUME NEW i \in 1..n + m, NEW j \in 1..n + m, grown[i].id = grown[j].id
        PROVE  i = j
    <3>1. CASE i \in 1..n /\ j \in 1..n
      BY <1>1, <1>3, <2>2, <3>1
    <3>2. CASE (\E k \in 1..m : i = n + k) /\ (\E k \in 1..m : j = n + k)
      <4>1. PICK k \in 1..m, l \in 1..m : i = n + k /\ j = n + l
        BY <3>2
      <4>2. grown[i] = new[k] /\ grown[j] = new[l]
        BY <1>1, <4>1
      <4>3. QED
        BY <1>3, <2>2, <4>1, <4>2
    <3>3. CASE i \in 1..n /\ \E k \in 1..m : j = n + k
      <4>1. PICK k \in 1..m : j = n + k
        BY <3>3
      <4>2. grown[j] = new[k] /\ grown[i] = events[i]
        BY <1>1, <3>3, <4>1
      <4>3. QED
        BY <1>3, <2>2, <3>3, <4>2
    <3>4. CASE j \in 1..n /\ \E k \in 1..m : i = n + k
      <4>1. PICK k \in 1..m : i = n + k
        BY <3>4
      <4>2. grown[i] = new[k] /\ grown[j] = events[j]
        BY <1>1, <3>4, <4>1
      <4>3. QED
        BY <1>3, <2>2, <3>4, <4>2
    <3>5. QED
      BY <1>2, <3>1, <3>2, <3>3, <3>4
  <2>3. QED
    BY <2>1, <2>2
<1>5. \A a : Placed(a, events) => Placed(a, grown)
  BY <1>1 DEF Placed, n, m
<1>6. \A k \in 1..m : Placed(new[k], grown)
  <2>. TAKE k \in 1..m
  <2>1. new[k].sequence = n + k /\ n + k \in 1..n + m
    BY <1>1, <1>3
  <2>2. QED
    BY <1>1, <2>1 DEF Placed
<1>7. QED
  BY <1>1, <1>4, <1>5, <1>6 DEF Numbered, Distinct, grown, m

\* A step that writes lines, or fails at it, and what it answers.
LEMMA StoreGrows ==
  ASSUME StoreInv, Readable, NEW new, MayFollow(new, file.events),
         file' = [events |-> file'.events, end |-> file'.end],
         file'.events \in {file.events, file.events \o new},
         \A a \in answered' : a \in answered \/ Placed(a, file.events \o new),
         \/ file'.events = file.events \o new
         \/ file'.end = "garbled"
         \/ \A a \in answered' : a \in answered \/ Placed(a, file.events)
  PROVE  StoreInv'
<1>. DEFINE grown == file.events \o new
<1>1. /\ IsSequence(grown) /\ Numbered(grown) /\ Distinct(grown)
      /\ \A a : Placed(a, file.events) => Placed(a, grown)
  BY HistoryGrows DEF StoreInv
<1>. HIDE DEF grown
<1>2. \A a \in answered' : Placed(a, grown)
  BY <1>1 DEF StoreInv, grown
<1>3. \A a, b \in answered' : a.id = b.id => a = b
  BY <1>1, <1>2 DEF Placed, Distinct
<1>4. IsSequence(file'.events) /\ Numbered(file'.events) /\ Distinct(file'.events)
  BY <1>1 DEF StoreInv, grown
<1>5. Readable' => \A a \in answered' : Placed(a, file'.events)
  BY <1>2 DEF StoreInv, Readable, grown
<1>6. QED
  BY <1>3, <1>4, <1>5 DEF StoreInv

LEMMA NothingFollows ==
  ASSUME StoreInv
  PROVE  MayFollow(<<>>, file.events)
BY DEF MayFollow, Distinct, IsSequence

\* A step that only answers what is in the file.
LEMMA StoreAnswers ==
  ASSUME StoreInv, Readable, file' = file,
         \A a \in answered' : a \in answered \/ Placed(a, file.events)
  PROVE  StoreInv'
<1>1. \A a \in answered' : Placed(a, file.events)
  BY DEF StoreInv
<1>2. \A a, b \in answered' : a.id = b.id => a = b
  BY <1>1 DEF StoreInv, Placed, Distinct
<1>3. QED
  BY <1>1, <1>2 DEF StoreInv, Readable

LEMMA WrittenFile ==
  ASSUME StoreInv, Readable, NEW new
  PROVE  LET f == Written(file, new)
         IN  /\ f = [events |-> f.events, end |-> f.end]
             /\ \/ f.events = file.events \o new
                \/ f.events = file.events /\ f.end = "garbled"
BY DEF Written, StoreInv

\* What is known is in the file at its place, and what is not may be written.
LEMMA StoredIsPlaced ==
  ASSUME StoreInv, NEW id, Known(id)
  PROVE  Placed(StoredAs(id), file.events) /\ StoredAs(id).id = id
<1>1. \E e \in ToSet(History) : e.id = id
  BY DEF Known, ToSet
<1>2. StoredAs(id) \in ToSet(History) /\ StoredAs(id).id = id
  BY <1>1 DEF StoredAs
<1>3. \A e \in ToSet(History) : Placed(e, file.events)
  BY SequenceDomain DEF ToSet, History, Placed, StoreInv, Numbered
<1>4. QED
  BY <1>2, <1>3

LEMMA EventMayFollow ==
  ASSUME StoreInv, NEW c, ~Known(c.id)
  PROVE  /\ MayFollow(<<Chained(History, c)>>, file.events)
         /\ Placed(Chained(History, c), file.events \o <<Chained(History, c)>>)
<1>. DEFINE e == Chained(History, c)
            new == <<e>>
<1>1. e.sequence = Len(file.events) + 1 /\ e.id = c.id
  BY DEF Chained, History
<1>. HIDE DEF e
<1>2. new \in Seq({e}) /\ Len(new) = 1 /\ new[1] = e
  OBVIOUS
<1>. HIDE DEF new
<1>3. IsSequence(new)
  BY <1>2, MemberIsSequence
<1>4. \A j \in 1..Len(file.events) : file.events[j].id # c.id
  BY SequenceDomain DEF StoreInv, Known, History
<1>5. MayFollow(new, file.events)
  BY <1>1, <1>2, <1>3, <1>4 DEF MayFollow, Distinct
<1>6. Placed(new[1], file.events \o new)
  BY <1>2, <1>5, HistoryGrows DEF StoreInv
<1>7. QED
  BY <1>2, <1>5, <1>6 DEF e, new

LEMMA BatchMayFollow ==
  ASSUME StoreInv, NEW batch, IsSequence(batch), DistinctIds(batch), NoneStored(batch)
  PROVE  LET new == ChainedBatch(History, batch)
         IN  /\ MayFollow(new, file.events)
             /\ \A e \in ToSet(new) : Placed(e, file.events \o new)
<1>. DEFINE new == ChainedBatch(History, batch)
            n == Len(batch)
<1>1. n \in Nat /\ DOMAIN batch = 1..n
  BY SequenceDomain
<1>2. /\ new = [k \in 1..n |-> new[k]]
      /\ \A k \in 1..n : new[k].sequence = Len(file.events) + k /\ new[k].id = batch[k].id
  BY DEF ChainedBatch, History
<1>. HIDE DEF new, n
<1>3. Len(new) = n /\ DOMAIN new = 1..n /\ IsSequence(new)
  <2>1. new \in Seq({new[k] : k \in 1..n})
    BY <1>1, <1>2
  <2>2. QED
    BY <1>1, <1>2, <2>1, MemberIsSequence
<1>4. \A k \in 1..n, j \in 1..Len(file.events) : file.events[j].id # batch[k].id
  BY <1>1, SequenceDomain DEF StoreInv, NoneStored, Known, History
<1>5. \A i, j \in 1..n : batch[i].id = batch[j].id => i = j
  BY <1>1 DEF DistinctIds
<1>6. MayFollow(new, file.events)
  BY <1>2, <1>3, <1>4, <1>5, ZenonT(30) DEF MayFollow, Distinct
<1>7. \A k \in 1..n : Placed(new[k], file.events \o new)
  BY <1>3, <1>6, HistoryGrows DEF StoreInv
<1>8. \A e \in ToSet(new) : Placed(e, file.events \o new)
  BY <1>3, <1>7 DEF ToSet
<1>9. QED
  BY <1>6, <1>8 DEF new

LEMMA PieceIsSequence ==
  ASSUME NEW piece \in Pieces
  PROVE  IsSequence(piece)
<1>0. PICK c \in Chains : \E i, j \in 1..Len(c) : piece = SubSeq(c, i, j)
  BY DEF Pieces
<1>1. PICK i \in 1..Len(c), j \in 1..Len(c) : piece = SubSeq(c, i, j)
  BY <1>0
<1>2. c \in Seq(ToSet(c))
  BY HistoriesAssumption
<1>. DEFINE S == ToSet(c)
<1>. HIDE DEF S
<1>3. c \in Seq(S) /\ i \in Int /\ j \in Int /\ \A k \in i..j : c[k] \in S
  BY <1>2 DEF S
<1>4. piece \in Seq(S)
  BY <1>1, <1>3, SubSeqProperties
<1>5. QED
  BY <1>4, MemberIsSequence

LEMMA PieceMayFollow ==
  ASSUME StoreInv, NEW piece, IsSequence(piece), Continues(piece)
  PROVE  LET new == NewEvents(piece)
         IN  /\ MayFollow(new, file.events)
             /\ \A e \in ToSet(piece) :
                  Placed(e, file.events) \/ (new # <<>> /\ Placed(e, file.events \o new))
<1>. DEFINE new == NewEvents(piece)
            first == piece[1].sequence
            n == Len(file.events)
            p == Len(piece)
            m == n + 2 - first
<1>1. /\ n \in Nat /\ p \in Nat /\ DOMAIN piece = 1..p /\ first \in 1..n + 1
      /\ DOMAIN file.events = 1..n
  BY SequenceDomain DEF Continues, History, StoreInv
<1>2. \A k \in 1..p : /\ piece[k].sequence = first + k - 1
                      /\ piece[k].sequence <= n => file.events[piece[k].sequence] = piece[k]
  BY <1>1 DEF Continues, History
<1>3. new = SubSeq(piece, m, Len(piece))
  BY DEF NewEvents, History
<1>4. DistinctIds(new) /\ \A k \in DOMAIN new : ~Known(new[k].id)
  BY DEF Continues
<1>. HIDE DEF new, first, n
<1>5. m \in Nat \ {0}
  BY <1>1
<1>. HIDE DEF m
<1>6. /\ IsSequence(new) /\ Len(new) = IF m <= p THEN p - m + 1 ELSE 0
      /\ \A i \in 1..Len(new) : m + i - 1 \in 1..p /\ new[i] = piece[m + i - 1]
  BY <1>3, <1>5, RestSequence
<1>7. Len(new) \in Nat /\ DOMAIN new = 1..Len(new)
  BY <1>6, SequenceDomain
<1>8. ASSUME NEW k \in 1..Len(new) PROVE new[k].sequence = n + k
  <2>1. new[k].sequence = first + (m + k - 1) - 1
    BY <1>2, <1>6
  <2>2. QED
    BY <1>1, <1>7, <2>1 DEF m
<1>9. \A k \in 1..Len(new), j \in 1..n : new[k].id # file.events[j].id
  BY <1>1, <1>4, <1>7 DEF Known, History
<1>10. MayFollow(new, file.events)
  BY <1>4, <1>6, <1>7, <1>8, <1>9 DEF MayFollow, Distinct, DistinctIds, n
<1>11. ASSUME NEW k \in 1..p
       PROVE  Placed(piece[k], file.events) \/ (new # <<>> /\ Placed(piece[k], file.events \o new))
  <2>1. CASE piece[k].sequence <= n
    BY <1>1, <1>2, <2>1 DEF Placed, n
  <2>2. CASE ~(piece[k].sequence <= n)
    <3>. DEFINE i == k - m + 1
    <3>1. i \in 1..Len(new) /\ m + i - 1 = k
      BY <1>1, <1>2, <1>5, <1>6, <2>2 DEF m
    <3>. HIDE DEF i
    <3>2. new[i] = piece[k] /\ new # <<>>
      BY <1>6, <3>1
    <3>3. Placed(new[i], file.events \o new)
      BY <1>10, <3>1, HistoryGrows DEF StoreInv
    <3>4. QED
      BY <3>2, <3>3
  <2>3. QED
    BY <2>1, <2>2
<1>12. QED
  BY <1>1, <1>10, <1>11 DEF ToSet, new

LEMMA EventStep ==
  ASSUME StoreInv, NEW c, Readable, AnswerStored(c) \/ WriteEvent(c)
  PROVE  StoreInv'
<1>1. CASE AnswerStored(c)
  <2>1. file' = file /\ answered' = answered \cup {StoredAs(c.id)} /\ Known(c.id)
    BY <1>1 DEF AnswerStored, Reply
  <2>2. QED
    BY <2>1, StoredIsPlaced, StoreAnswers
<1>2. CASE WriteEvent(c)
  <2>. DEFINE e == Chained(History, c)
              new == <<e>>
  <2>1. file' = Written(file, new) /\ answered' = answered \cup {e} /\ ~Known(c.id)
    BY <1>2 DEF WriteEvent, Reply
  <2>2. MayFollow(new, file.events) /\ Placed(e, file.events \o new)
    BY <2>1, EventMayFollow
  <2>. HIDE DEF new, e
  <2>3. QED
    BY <2>1, <2>2, WrittenFile, StoreGrows
<1>3. QED
  BY <1>1, <1>2

LEMMA FailedAppendStep ==
  ASSUME StoreInv, NEW w, NEW c, FailedAppend(w, c)
  PROVE  StoreInv'
<1>. DEFINE e == Chained(History, c)
            new == <<e>>
<1>1. Readable /\ ~Known(c.id) /\ answered' = answered /\ file' \in TornAppend(file, e)
  BY DEF FailedAppend
<1>2. MayFollow(new, file.events)
  BY <1>1, EventMayFollow
<1>3. Append(file.events, e) = file.events \o new
  BY DEF StoreInv, IsSequence
<1>4. \/ file' = file
      \/ file' = [file EXCEPT !.end = "garbled"]
      \/ file' = Written(file, new)
      \/ file' = [events |-> file.events \o new, end |-> "open"]
  BY <1>1, <1>3 DEF TornAppend
<1>. HIDE DEF new, e
<1>5. CASE file' = file
  BY <1>1, <1>5, StoreAnswers
<1>6. CASE file' = [file EXCEPT !.end = "garbled"]
  <2>1. file' = [events |-> file.events, end |-> "garbled"]
    BY <1>6 DEF StoreInv
  <2>2. QED
    BY <1>1, <1>2, <2>1, StoreGrows
<1>7. CASE file' = Written(file, new)
  BY <1>1, <1>2, <1>7, WrittenFile, StoreGrows
<1>8. CASE file' = [events |-> file.events \o new, end |-> "open"]
  BY <1>1, <1>2, <1>8, StoreGrows
<1>9. QED
  BY <1>4, <1>5, <1>6, <1>7, <1>8

LEMMA BatchStep ==
  ASSUME StoreInv, NEW w, NEW batch \in Batches, Readable,
         WriteBatch(w, batch) \/ FailedBatch(w, batch)
  PROVE  StoreInv'
<1>. DEFINE new == ChainedBatch(History, batch)
<1>1. /\ DistinctIds(batch) /\ NoneStored(batch)
      /\ \/ file' = Written(file, new) /\ answered' = answered \cup ToSet(new)
         \/ file' \in {file, Written(file, new)} /\ answered' = answered
  BY DEF WriteBatch, FailedBatch, Reply, TornReplacement
<1>2. IsSequence(batch)
  BY HistoriesAssumption, MemberIsSequence
<1>3. MayFollow(new, file.events) /\ \A e \in ToSet(new) : Placed(e, file.events \o new)
  BY <1>1, <1>2, BatchMayFollow
<1>. HIDE DEF new
<1>4. CASE file' = file /\ answered' = answered
  BY <1>4, StoreAnswers
<1>5. CASE file' = Written(file, new) /\ (answered' = answered \cup ToSet(new) \/ answered' = answered)
  BY <1>3, <1>5, WrittenFile, StoreGrows
<1>6. QED
  BY <1>1, <1>4, <1>5

LEMMA RepeatedBatchStep ==
  ASSUME StoreInv, NEW w, NEW batch \in Batches, AppendBatchIdempotent(w, batch)
  PROVE  StoreInv'
<1>1. CASE WriteBatch(w, batch)
  BY <1>1, BatchStep DEF AppendBatchIdempotent
<1>2. CASE /\ \A k \in DOMAIN batch : Known(batch[k].id)
           /\ answered' = answered \cup {StoredAs(batch[k].id) : k \in DOMAIN batch}
           /\ file' = file /\ Readable
  BY <1>2, StoredIsPlaced, StoreAnswers
<1>3. QED
  BY <1>1, <1>2 DEF AppendBatchIdempotent, Reply

LEMMA ImportStep ==
  ASSUME StoreInv, NEW w, NEW piece \in Pieces,
         ImportAcceptedBatch(w, piece) \/ FailedImport(w, piece)
  PROVE  StoreInv'
<1>. DEFINE new == NewEvents(piece)
<1>1. /\ Readable /\ Continues(piece)
      /\ \/ /\ file' = IF new = <<>> THEN file ELSE Written(file, new)
            /\ answered' = answered \cup ToSet(piece)
         \/ file' \in {file, Written(file, new)} /\ answered' = answered
  BY DEF ImportAcceptedBatch, FailedImport, Reply, TornReplacement
<1>2. /\ MayFollow(new, file.events)
      /\ \A e \in ToSet(piece) :
           Placed(e, file.events) \/ (new # <<>> /\ Placed(e, file.events \o new))
  BY <1>1, PieceIsSequence, PieceMayFollow
<1>. HIDE DEF new
<1>3. CASE file' = file /\ answered' = answered
  BY <1>1, <1>3, StoreAnswers
<1>4. CASE file' = file /\ new = <<>> /\ answered' = answered \cup ToSet(piece)
  BY <1>1, <1>2, <1>4, StoreAnswers
<1>5. CASE file' = Written(file, new) /\ (answered' = answered \cup ToSet(piece) \/ answered' = answered)
  <2>1. \A e \in ToSet(piece) : Placed(e, file.events \o new)
    BY <1>2, HistoryGrows DEF StoreInv
  <2>2. QED
    BY <1>1, <1>2, <1>5, <2>1, WrittenFile, StoreGrows
<1>6. QED
  BY <1>1, <1>3, <1>4, <1>5

LEMMA StoreStep ==
  ASSUME StoreInv, [StoreNext]_storeVars
  PROVE  StoreInv'
<1>1. CASE UNCHANGED storeVars
  BY <1>1 DEF storeVars, StoreInv, Readable
<1>2. CASE \E w \in Writers : ReadAll(w)
  BY <1>2, StoreAnswers DEF ReadAll
<1>3. CASE \E w \in Writers, c \in Contents : AppendEvent(c) \/ AppendEventIfUnchanged(w, c)
  BY <1>3, EventStep DEF AppendEvent, AppendEventIfUnchanged
<1>4. CASE \E w \in Writers, c \in Contents : FailedAppend(w, c)
  BY <1>4, FailedAppendStep
<1>5. CASE \E w \in Writers, b \in Batches : AppendBatch(w, b) \/ FailedBatch(w, b)
  BY <1>5, BatchStep DEF AppendBatch, FailedBatch
<1>6. CASE \E w \in Writers, b \in Batches : AppendBatchIdempotent(w, b)
  BY <1>6, RepeatedBatchStep
<1>7. CASE \E w \in Writers, piece \in Pieces : ImportAcceptedBatch(w, piece) \/ FailedImport(w, piece)
  BY <1>7, ImportStep
<1>8. QED
  BY <1>1, <1>2, <1>3, <1>4, <1>5, <1>6, <1>7 DEF StoreNext

\* An event that an operation of the store has answered as stored keeps its place in
\* every history that can be read later, and its id is answered with no other: of
\* Append, AppendBatchIdempotent and ImportAcceptedBatch, of any writers, and of the
\* appends and replacements that fail.
THEOREM AnswersOfTheStoreStay == StoreSpec => []AnswersStay
<1>1. StoreInit => StoreInv
  BY NothingFollows DEF StoreInit, StoreInv, Numbered, Distinct, IsSequence
<1>2. StoreInv /\ [StoreNext]_storeVars => StoreInv'
  BY StoreStep
<1>3. StoreInv => AnswersStay
  BY SequenceDomain DEF StoreInv, AnswersStay, Placed, History
<1>4. QED
  BY <1>1, <1>2, <1>3, PTL DEF StoreSpec

\* Only a single append that failed leaves a file that does not end after a newline:
\* a batch is written to another file and renamed.
THEOREM OnlyTornAppendsLeaveAnOpenEnd == StoreSpec => []OnlyTornAppendsSpoil
<1>. DEFINE Shape == file = [events |-> file.events, end |-> file.end]
<1>1. StoreInit => Shape /\ OnlyTornAppendsSpoil
  BY DEF StoreInit, OnlyTornAppendsSpoil
<1>2. ASSUME Shape, OnlyTornAppendsSpoil, [StoreNext]_storeVars
      PROVE  Shape' /\ OnlyTornAppendsSpoil'
  <2>1. \A new : LET f == Written(file, new)
                 IN f = [events |-> f.events, end |-> f.end] /\ (f.end # "line" => torn)
    BY <1>2 DEF Written, OnlyTornAppendsSpoil
  <2>2. CASE torn' = torn /\ (file' = file \/ \E new : file' = Written(file, new))
    BY <1>2, <2>1, <2>2 DEF OnlyTornAppendsSpoil
  <2>3. CASE torn' /\ \E e : file' \in TornAppend(file, e)
    BY <1>2, <2>1, <2>3 DEF OnlyTornAppendsSpoil, TornAppend
  <2>4. (torn' = torn /\ (file' = file \/ \E new : file' = Written(file, new)))
        \/ (torn' /\ \E e : file' \in TornAppend(file, e))
    BY <1>2 DEF StoreNext, storeVars, ReadAll, AppendEvent, AppendEventIfUnchanged,
                AnswerStored, WriteEvent, FailedAppend, AppendBatch, AppendBatchIdempotent,
                WriteBatch, FailedBatch, TornReplacement, ImportAcceptedBatch, FailedImport, Reply
  <2>5. QED
    BY <2>2, <2>3, <2>4
<1>3. QED
  BY <1>1, <1>2, PTL DEF StoreSpec
-----------------------------------------------------------------------------

(***************************************************************************)
(* What the local API answers from, and the file that names the core.      *)
(***************************************************************************)

Events == Seq(Nat)

LogType ==
  [joined : BOOLEAN, accepted : Events, pending : Events, version : Nat, shrunk : BOOLEAN]
IndexType == [events : Events, open : BOOLEAN]
FetchType == [phase : {"asked", "taken", "read"}, version : Nat, last : BOOLEAN]
PageType ==
  [stream : BOOLEAN, inbox : {<<>>} \cup {<<n>> : n \in Nat}, wire : Seq(Nat),
   fetches : Seq(FetchType), shown : Nat, answered : BOOLEAN, told : Nat]

HistoryRequest ==
  [phase : {"asked", "rebuilding", "refreshed"}, kind : {"history"}, asked : Events,
   read : Events, fresh : BOOLEAN]
WritingRequest ==
  [phase : {"written", "rebuilding", "refreshed"}, kind : {"write"}, read : Events,
   fresh : BOOLEAN]
TellingRequest == [phase : {"telling"}, version : Nat]
AnsweredRequest == [phase : {"answered"}, missing : SUBSET Nat]

RequestType ==
  {NoRequest} \cup HistoryRequest \cup WritingRequest \cup TellingRequest \cup AnsweredRequest

ViewType ==
  /\ eventLog \in LogType /\ index \in IndexType /\ page \in PageType
  /\ requests \in [Views -> RequestType]
-----------------------------------------------------------------------------
LEMMA MaxOfTwo ==
  ASSUME NEW a \in Nat, NEW b \in Nat
  PROVE  Max({a, b}) \in Nat /\ Max({a, b}) >= a /\ Max({a, b}) >= b /\ Max({a, b}) \in {a, b}
<1>1. \E x \in {a, b} : \A y \in {a, b} : x >= y
  <2>1. CASE a >= b
    BY <2>1
  <2>2. CASE b >= a
    BY <2>2
  <2>3. QED
    BY <2>1, <2>2
<1>. DEFINE m == Max({a, b})
<1>2. m \in {a, b} /\ \A y \in {a, b} : m >= y
  BY <1>1 DEF Max
<1>. HIDE DEF m
<1>3. QED
  BY <1>2 DEF m

LEMMA ConcatEvents ==
  ASSUME NEW s \in Events, NEW t \in Events
  PROVE  /\ s \o t \in Events /\ Len(s \o t) = Len(s) + Len(t)
         /\ ToSet(s \o t) = ToSet(s) \cup ToSet(t)
<1>1. /\ s \o t \in Events /\ Len(s \o t) = Len(s) + Len(t)
      /\ \A i \in 1..Len(s) : (s \o t)[i] = s[i]
      /\ \A i \in 1..Len(t) : (s \o t)[Len(s) + i] = t[i]
      /\ \A i \in 1..Len(s) + Len(t) : (s \o t)[i] = IF i <= Len(s) THEN s[i] ELSE t[i - Len(s)]
  BY ConcatProperties, LenProperties DEF Events
<1>2. /\ DOMAIN s = 1..Len(s) /\ DOMAIN t = 1..Len(t) /\ DOMAIN (s \o t) = 1..Len(s \o t)
      /\ Len(s) \in Nat /\ Len(t) \in Nat
  BY <1>1, LenProperties DEF Events
<1>. DEFINE u == s \o t
<1>3. /\ DOMAIN u = 1..(Len(s) + Len(t))
      /\ \A i \in 1..Len(s) : u[i] = s[i]
      /\ \A i \in 1..Len(t) : u[Len(s) + i] = t[i]
      /\ \A i \in 1..Len(s) + Len(t) : u[i] = IF i <= Len(s) THEN s[i] ELSE t[i - Len(s)]
  BY <1>1, <1>2
<1>. HIDE DEF u
<1>4. ToSet(u) \subseteq ToSet(s) \cup ToSet(t)
  <2>1. ASSUME NEW i \in DOMAIN u PROVE u[i] \in ToSet(s) \cup ToSet(t)
    <3>1. CASE i <= Len(s)
      BY <1>2, <1>3, <3>1 DEF ToSet
    <3>2. CASE ~(i <= Len(s))
      <4>1. i - Len(s) \in DOMAIN t /\ u[i] = t[i - Len(s)]
        BY <1>2, <1>3, <3>2
      <4>2. QED
        BY <4>1 DEF ToSet
    <3>3. QED
      BY <3>1, <3>2
  <2>2. QED
    BY <2>1 DEF ToSet
<1>5. ToSet(s) \subseteq ToSet(u)
  BY <1>2, <1>3 DEF ToSet
<1>6. ToSet(t) \subseteq ToSet(u)
  <2>1. ASSUME NEW i \in DOMAIN t PROVE t[i] \in ToSet(u)
    <3>1. Len(s) + i \in DOMAIN u /\ u[Len(s) + i] = t[i]
      BY <1>2, <1>3
    <3>2. QED
      BY <3>1 DEF ToSet
  <2>2. QED
    BY <2>1 DEF ToSet
<1>7. QED
  BY <1>1, <1>4, <1>5, <1>6 DEF u

LEMMA AppendEvents ==
  ASSUME NEW s \in Events, NEW e \in Nat
  PROVE  /\ Append(s, e) \in Events /\ Len(Append(s, e)) = Len(s) + 1
         /\ ToSet(Append(s, e)) = ToSet(s) \cup {e}
<1>1. Append(s, e) = s \o <<e>> /\ <<e>> \in Events /\ Len(<<e>>) = 1 /\ ToSet(<<e>>) = {e}
  BY AppendIsConcat DEF Events, ToSet
<1>2. QED
  BY <1>1, ConcatEvents

LEMMA LongerEvents ==
  ASSUME NEW s \in Events, NEW t \in Events, NEW e \in Nat
  PROVE  /\ Len(Append(s, e) \o t) = Len(s \o t) + 1 /\ ToSet(s \o t) \subseteq ToSet(Append(s, e) \o t)
         /\ Len(s \o Append(t, e)) = Len(s \o t) + 1 /\ ToSet(s \o t) \subseteq ToSet(s \o Append(t, e))
         /\ Len(s \o t) \in Nat
<1>1. Len(s) \in Nat /\ Len(t) \in Nat
  BY LenProperties DEF Events
<1>. DEFINE a == Append(s, e)
            b == Append(t, e)
<1>2. /\ a \in Events /\ Len(a) = Len(s) + 1 /\ ToSet(s) \subseteq ToSet(a)
      /\ b \in Events /\ Len(b) = Len(t) + 1 /\ ToSet(t) \subseteq ToSet(b)
  BY AppendEvents
<1>. HIDE DEF a, b
<1>3. /\ Len(s \o t) = Len(s) + Len(t) /\ ToSet(s \o t) = ToSet(s) \cup ToSet(t)
      /\ Len(a \o t) = Len(a) + Len(t) /\ ToSet(a \o t) = ToSet(a) \cup ToSet(t)
      /\ Len(s \o b) = Len(s) + Len(b) /\ ToSet(s \o b) = ToSet(s) \cup ToSet(b)
  BY <1>2, ConcatEvents
<1>4. /\ Len(a \o t) = Len(s \o t) + 1 /\ ToSet(s \o t) \subseteq ToSet(a \o t)
      /\ Len(s \o b) = Len(s \o t) + 1 /\ ToSet(s \o t) \subseteq ToSet(s \o b)
      /\ Len(s \o t) \in Nat
  BY <1>1, <1>2, <1>3
<1>5. QED
  BY <1>4 DEF a, b
-----------------------------------------------------------------------------
LEMMA ViewTypeInitially == ViewInit => ViewType
<1>. SUFFICES ASSUME ViewInit PROVE ViewType
  OBVIOUS
<1>1. <<0>> \in Events /\ <<>> \in Events
  BY DEF Events
<1>2. eventLog \in LogType
  BY <1>1 DEF ViewInit, LogType
<1>3. index \in IndexType /\ page \in PageType
  BY <1>1 DEF ViewInit, IndexType, PageType
<1>4. requests \in [Views -> RequestType]
  BY DEF ViewInit, RequestType
<1>5. QED
  BY <1>2, <1>3, <1>4 DEF ViewType

\* Every change makes the log longer, and takes nothing from it while nothing is settled.
LEMMA LogGrows ==
  ASSUME ViewType, LogChanges \/ \E v \in Views : WriteRequest(v)
  PROVE  /\ eventLog' \in LogType /\ eventLog'.version >= eventLog.version
         /\ eventLog.shrunk => eventLog'.shrunk
         /\ ~eventLog'.shrunk => /\ Len(Projection') > Len(Projection)
                                 /\ ToSet(Projection) \subseteq ToSet(Projection')
<1>. USE DEF ViewType
<1>1. /\ eventLog.accepted \in Events /\ eventLog.pending \in Events /\ eventLog.version \in Nat
      /\ Len(eventLog.accepted) \in Nat /\ Len(eventLog.pending) \in Nat
  BY LenProperties DEF LogType, Events
<1>2. CASE ImportAccepted
  <2>1. PICK e : /\ e \in {eventLog.version + 1} \cup
                          (IF eventLog.pending = <<>> THEN {}
                           ELSE {Head(eventLog.pending)} \ ToSet(eventLog.accepted))
                 /\ eventLog' = [eventLog EXCEPT !.version = @ + 1, !.accepted = Append(@, e)]
    BY <1>2 DEF ImportAccepted
  <2>2. e \in Nat
    <3>1. eventLog.pending # <<>> => Head(eventLog.pending) \in Nat
      BY <1>1, HeadTailProperties DEF Events
    <3>2. QED
      BY <1>1, <2>1, <3>1
  <2>3. eventLog' = [joined |-> eventLog.joined, accepted |-> Append(eventLog.accepted, e),
                     pending |-> eventLog.pending, version |-> eventLog.version + 1,
                     shrunk |-> eventLog.shrunk]
    BY <2>1 DEF LogType
  <2>4. /\ eventLog' \in LogType /\ eventLog'.version = eventLog.version + 1
        /\ eventLog'.accepted = Append(eventLog.accepted, e) /\ eventLog'.pending = eventLog.pending
        /\ eventLog'.shrunk = eventLog.shrunk
    <3>1. Append(eventLog.accepted, e) \in Events
      BY <1>1, <2>2, AppendEvents
    <3>2. QED
      BY <1>1, <2>3, <3>1 DEF LogType
  <2>5. /\ Len(Projection') = Len(Projection) + 1 /\ Len(Projection) \in Nat
        /\ ToSet(Projection) \subseteq ToSet(Projection')
    <3>1. /\ Projection = eventLog.accepted \o eventLog.pending
          /\ Projection' = Append(eventLog.accepted, e) \o eventLog.pending
      BY <2>4 DEF Projection
    <3>2. QED
      BY <1>1, <2>2, <3>1, LongerEvents
  <2>6. QED
    BY <1>1, <2>4, <2>5
<1>3. CASE SettlePending
  <2>1. Tail(eventLog.pending) \in Events
    BY <1>1, <1>3, HeadTailProperties DEF SettlePending, Events
  <2>2. eventLog' = [joined |-> eventLog.joined, accepted |-> eventLog.accepted,
                     pending |-> Tail(eventLog.pending), version |-> eventLog.version + 1,
                     shrunk |-> TRUE]
    BY <1>3 DEF SettlePending, LogType
  <2>3. QED
    BY <1>1, <2>1, <2>2 DEF LogType
<1>4. CASE eventLog' = WithEvent(eventLog)
  <2>. DEFINE e == eventLog.version + 1
  <2>1. e \in Nat
    BY <1>1
  <2>2. CASE eventLog.joined
    <3>1. eventLog' = [joined |-> eventLog.joined, accepted |-> eventLog.accepted,
                       pending |-> Append(eventLog.pending, e), version |-> e,
                       shrunk |-> eventLog.shrunk]
      BY <1>4, <2>2 DEF WithEvent, LogType
    <3>2. eventLog.accepted \in Events /\ Append(eventLog.pending, e) \in Events
      BY <1>1, <2>1, AppendEvents
    <3>3. /\ eventLog' \in LogType /\ eventLog'.version = e /\ eventLog'.shrunk = eventLog.shrunk
          /\ eventLog'.accepted = eventLog.accepted /\ eventLog'.pending = Append(eventLog.pending, e)
      BY <1>1, <3>1, <3>2 DEF LogType
    <3>4. /\ Len(Projection') = Len(Projection) + 1 /\ Len(Projection) \in Nat
          /\ ToSet(Projection) \subseteq ToSet(Projection')
      <4>1. /\ Projection = eventLog.accepted \o eventLog.pending
            /\ Projection' = eventLog.accepted \o Append(eventLog.pending, e)
        BY <3>3 DEF Projection
      <4>2. QED
        BY <1>1, <2>1, <4>1, LongerEvents
    <3>5. QED
      BY <1>1, <3>3, <3>4
  <2>3. CASE ~eventLog.joined
    <3>1. eventLog' = [joined |-> eventLog.joined, accepted |-> Append(eventLog.accepted, e),
                       pending |-> eventLog.pending, version |-> e,
                       shrunk |-> eventLog.shrunk]
      BY <1>4, <2>3 DEF WithEvent, LogType
    <3>2. Append(eventLog.accepted, e) \in Events /\ eventLog.pending \in Events
      BY <1>1, <2>1, AppendEvents
    <3>3. /\ eventLog' \in LogType /\ eventLog'.version = e /\ eventLog'.shrunk = eventLog.shrunk
          /\ eventLog'.accepted = Append(eventLog.accepted, e) /\ eventLog'.pending = eventLog.pending
      BY <1>1, <3>1, <3>2 DEF LogType
    <3>4. /\ Len(Projection') = Len(Projection) + 1 /\ Len(Projection) \in Nat
          /\ ToSet(Projection) \subseteq ToSet(Projection')
      <4>1. /\ Projection = eventLog.accepted \o eventLog.pending
            /\ Projection' = Append(eventLog.accepted, e) \o eventLog.pending
        BY <3>3 DEF Projection
      <4>2. QED
        BY <1>1, <2>1, <4>1, LongerEvents
    <3>5. QED
      BY <1>1, <3>3, <3>4
  <2>4. QED
    BY <2>2, <2>3
<1>5. QED
  BY <1>2, <1>3, <1>4 DEF LogChanges, AppendElsewhere, WriteRequest

LEMMA Proceeded ==
  ASSUME ViewType, NEW v \in Views, NEW next \in RequestType, Proceeding(v, next)
  PROVE  /\ requests' \in [Views -> RequestType] /\ requests'[v] = next
         /\ \A w \in Views \ {v} : requests'[w] = requests[w]
  BY DEF ViewType, Proceeding

\* What a request is in a phase: only a history request is "asked", and so on.
LEMMA RequestPhases ==
  ASSUME ViewType, NEW v \in Views
  PROVE  /\ requests[v] \in RequestType
         /\ requests[v].phase = "asked" => requests[v] \in HistoryRequest
         /\ requests[v].phase = "written" => requests[v] \in WritingRequest
         /\ requests[v].phase = "telling" => requests[v] \in TellingRequest
         /\ requests[v].phase = "answered" => requests[v] \in AnsweredRequest
         /\ requests[v].phase \in {"rebuilding", "refreshed"}
              => requests[v] \in HistoryRequest \cup WritingRequest
  BY DEF ViewType, RequestType, HistoryRequest, WritingRequest, TellingRequest, AnsweredRequest,
         NoRequest

\* A request that reads the log, or ends its rebuild, is of its kind as before.
Reading(x, phase, P, fresh) == [x EXCEPT !.phase = phase, !.read = P, !.fresh = fresh]

LEMMA ReadingRequest ==
  ASSUME NEW x \in HistoryRequest \cup WritingRequest, NEW P \in Events, NEW fresh \in BOOLEAN,
         NEW phase \in {"rebuilding", "refreshed"}
  PROVE  LET next == Reading(x, phase, P, fresh)
         IN /\ next \in RequestType /\ next.phase = phase /\ next.read = P /\ next.fresh = fresh
            /\ next \in HistoryRequest <=> x \in HistoryRequest
            /\ x \in HistoryRequest => next.asked = x.asked
<1>. SUFFICES ASSUME NEW next, next = Reading(x, phase, P, fresh)
     PROVE  /\ next \in RequestType /\ next.phase = phase /\ next.read = P /\ next.fresh = fresh
            /\ next \in HistoryRequest <=> x \in HistoryRequest
            /\ x \in HistoryRequest => next.asked = x.asked
  OBVIOUS
<1>1. CASE x \in HistoryRequest
  <2>1. next = [phase |-> phase, kind |-> x.kind, asked |-> x.asked, read |-> P, fresh |-> fresh]
    BY <1>1 DEF HistoryRequest, Reading
  <2>2. next \in HistoryRequest
    BY <1>1, <2>1 DEF HistoryRequest
  <2>3. QED
    BY <1>1, <2>1, <2>2 DEF RequestType
<1>2. CASE x \in WritingRequest
  <2>1. next = [phase |-> phase, kind |-> x.kind, read |-> P, fresh |-> fresh]
    BY <1>2 DEF WritingRequest, Reading
  <2>2. next \in WritingRequest
    BY <1>2, <2>1 DEF WritingRequest
  <2>3. next.kind = "write" /\ x.kind = "write"
    BY <1>2, <2>1 DEF WritingRequest
  <2>4. x \notin HistoryRequest /\ next \notin HistoryRequest
    BY <2>3 DEF HistoryRequest
  <2>5. QED
    BY <1>2, <2>1, <2>2, <2>4 DEF RequestType
<1>3. QED
  BY <1>1, <1>2

LEMMA ProjectionType ==
  ASSUME ViewType
  PROVE  Projection \in Events /\ Len(Projection) \in Nat
<1>1. eventLog.accepted \in Events /\ eventLog.pending \in Events
  BY DEF ViewType, LogType
<1>2. QED
  BY <1>1, ConcatEvents, LenProperties DEF Projection, Events

\* The index after a rebuild is what it was, or what was read, and at least as long as before.
LEMMA Rebuilt ==
  ASSUME NEW P \in Events, NEW Q \in Events, NEW rebuilt,
         rebuilt = (IF IsOlderThan(P, Q) THEN Q ELSE P)
  PROVE  rebuilt \in {P, Q} /\ Len(rebuilt) >= Len(Q) /\ Len(rebuilt) >= Len(P)
<1>1. Len(P) \in Nat /\ Len(Q) \in Nat
  BY LenProperties DEF Events
<1>2. QED
  BY <1>1 DEF IsOlderThan, WatermarkForEvents

LEMMA RebuildIndexEffect ==
  ASSUME ViewType, NEW v \in Views, RebuildIndex(v)
  PROVE  \E fresh \in BOOLEAN :
           /\ requests[v] \in HistoryRequest \cup WritingRequest
           /\ requests'[v] = Reading(requests[v], "refreshed", <<>>, fresh)
           /\ requests' \in [Views -> RequestType]
           /\ \A w \in Views \ {v} : requests'[w] = requests[w]
           /\ index' \in IndexType /\ index'.open = index.open
           /\ index'.events \in {index.events, requests[v].read}
           /\ Len(index'.events) >= Len(index.events)
           /\ fresh => Len(index'.events) = Len(requests[v].read)
<1>. DEFINE read == requests[v].read
            fits == WatermarkForEvents(index.events) = WatermarkForEvents(read)
            Next(fresh) == Reading(requests[v], "refreshed", <<>>, fresh)
<1>1. /\ requests[v] \in HistoryRequest \cup WritingRequest /\ read \in Events
      /\ index \in IndexType /\ index.events \in Events
      /\ Len(index.events) \in Nat
  <2>1. requests[v] \in HistoryRequest \cup WritingRequest
    BY RequestPhases DEF RebuildIndex
  <2>2. read \in Events
    BY <2>1 DEF HistoryRequest, WritingRequest
  <2>3. QED
    BY <2>1, <2>2, LenProperties DEF ViewType, IndexType, Events
<1>2. ASSUME NEW fresh \in BOOLEAN PROVE Next(fresh) \in RequestType
  <2>1. <<>> \in Events
    BY DEF Events
  <2>2. QED
    BY <1>1, <2>1, ReadingRequest
<1>3. CASE /\ index' = IF fits THEN index ELSE [index EXCEPT !.events = Rebuild(read)]
           /\ Proceeding(v, Next(WatermarkForEvents(index'.events) = WatermarkForEvents(read)))
  <2>1. /\ index' \in IndexType /\ index'.open = index.open
        /\ index'.events \in {index.events, read} /\ Len(index'.events) >= Len(index.events)
    <3>1. CASE fits
      BY <1>1, <1>3, <3>1
    <3>2. CASE ~fits
      <4>1. Rebuild(read) \in {read, index.events} /\ Len(Rebuild(read)) >= Len(index.events)
        BY <1>1, Rebuilt DEF Rebuild
      <4>2. index' = [index EXCEPT !.events = Rebuild(read)] /\ Rebuild(read) \in Events
        BY <1>1, <1>3, <3>2, <4>1
      <4>3. QED
        BY <1>1, <4>1, <4>2 DEF IndexType
    <3>3. QED
      BY <3>1, <3>2
  <2>. DEFINE fresh == WatermarkForEvents(index'.events) = WatermarkForEvents(read)
  <2>2. fresh \in BOOLEAN /\ Proceeding(v, Next(fresh)) /\ (fresh => Len(index'.events) = Len(read))
    BY <1>3 DEF WatermarkForEvents
  <2>. HIDE DEF fresh
  <2>3. QED
    BY <1>1, <1>2, <2>1, <2>2, Proceeded
<1>4. CASE Proceeding(v, Next(FALSE)) /\ UNCHANGED index
  <2>1. /\ requests'[v] = Next(FALSE) /\ requests' \in [Views -> RequestType]
        /\ \A w \in Views \ {v} : requests'[w] = requests[w]
    BY <1>2, <1>4, Proceeded
  <2>2. FALSE \in BOOLEAN /\ index' = index /\ Len(index'.events) >= Len(index.events)
    BY <1>1, <1>4
  <2>3. QED
    BY <1>1, <2>1, <2>2
<1>5. QED
  BY <1>3, <1>4 DEF RebuildIndex, Reading

LEMMA RefreshIndexEffect ==
  ASSUME ViewType, NEW v \in Views, RefreshIndex(v)
  PROVE  LET phase == IF index.open THEN "rebuilding" ELSE "refreshed"
         IN  /\ requests[v] \in HistoryRequest \cup WritingRequest
             /\ requests'[v] = Reading(requests[v], phase, Projection, TRUE)
             /\ requests' \in [Views -> RequestType]
             /\ \A w \in Views \ {v} : requests'[w] = requests[w]
             /\ UNCHANGED <<eventLog, index, page>>
<1>. DEFINE phase == IF index.open THEN "rebuilding" ELSE "refreshed"
            next == Reading(requests[v], phase, Projection, TRUE)
<1>1. requests[v] \in HistoryRequest \cup WritingRequest
  BY RequestPhases DEF RefreshIndex
<1>2. phase \in {"rebuilding", "refreshed"} /\ Projection \in Events
  BY ProjectionType
<1>3. Proceeding(v, next) /\ UNCHANGED <<eventLog, index, page>>
  BY DEF RefreshIndex, Reading
<1>. HIDE DEF phase
<1>4. next \in RequestType
  BY <1>1, <1>2, ReadingRequest
<1>. HIDE DEF next
<1>5. /\ requests'[v] = next /\ requests' \in [Views -> RequestType]
      /\ \A w \in Views \ {v} : requests'[w] = requests[w]
  BY <1>3, <1>4, Proceeded
<1>6. QED
  BY <1>1, <1>3, <1>5 DEF next, phase

(***************************************************************************)
(* Of the versions of the log that are held anywhere, the longer has all   *)
(* the events of the shorter, and the log itself is the longest: as long   *)
(* as nothing has left the pending batches.                                *)
(***************************************************************************)
Snapshots ==
  {Projection, index.events}
    \cup {requests[v].read : v \in {w \in Views : requests[w].phase = "rebuilding"}}
    \cup {requests[v].asked : v \in {w \in Views : requests[w] \in HistoryRequest}}

InOrder ==
  /\ \A P, Q \in Snapshots : Len(P) <= Len(Q) => ToSet(P) \subseteq ToSet(Q)
  /\ \A P \in Snapshots : Len(P) <= Len(Projection)

\* What a history request will answer with is no shorter than the log it was asked of.
RequestCurrent(v) ==
  /\ requests[v] \in HistoryRequest /\ requests[v].phase = "rebuilding"
       => Len(requests[v].asked) <= Len(requests[v].read)
  /\ requests[v] \in HistoryRequest /\ requests[v].phase = "refreshed" /\ requests[v].fresh /\ index.open
       => Len(requests[v].asked) <= Len(index.events)
  /\ requests[v].phase = "answered" => requests[v].missing = {}

HistoryOK == InOrder /\ \A v \in Views : RequestCurrent(v)

\* A page with a stream has something to hear, or the answer to its last fetch, which it shows
\* or will be given, has what it was told of.
FetchesOK(fetches, told) ==
  \A i \in DOMAIN fetches :
    fetches[i].last /\ fetches[i].phase = "read" => fetches[i].version >= told

Informed(p) ==
  p.stream /\ p.inbox = <<>> /\ p.wire = <<>> =>
    FetchesOK(p.fetches, p.told) /\ (p.answered => p.shown >= p.told)

PageOK ==
  /\ page.told <= eventLog.version
  /\ \A v \in Views : requests[v].phase = "telling" => requests[v].version <= eventLog.version
  /\ page.stream => index.open
  /\ Informed(page)

ViewInv == ViewType /\ (~eventLog.shrunk => HistoryOK) /\ PageOK
-----------------------------------------------------------------------------
LEMMA SnapshotsType ==
  ASSUME ViewType, NEW P \in Snapshots
  PROVE  P \in Events /\ Len(P) \in Nat
<1>1. P \in Events
  <2>1. Projection \in Events /\ index.events \in Events
    BY ProjectionType DEF ViewType, IndexType
  <2>2. ASSUME NEW v \in Views, requests[v].phase = "rebuilding" PROVE requests[v].read \in Events
    BY <2>2, RequestPhases DEF HistoryRequest, WritingRequest
  <2>3. ASSUME NEW v \in Views, requests[v] \in HistoryRequest PROVE requests[v].asked \in Events
    BY <2>3 DEF HistoryRequest
  <2>4. QED
    BY <2>1, <2>2, <2>3 DEF Snapshots
<1>2. QED
  BY <1>1, LenProperties DEF Events

\* Only the log as it is now is ever added to what is held.
LEMMA OrderKept ==
  ASSUME ViewType, InOrder, ViewType', Snapshots' \subseteq Snapshots \cup {Projection'},
         \/ Projection' = Projection
         \/ Len(Projection') > Len(Projection) /\ ToSet(Projection) \subseteq ToSet(Projection')
  PROVE  InOrder'
<1>1. Projection \in Snapshots /\ Len(Projection) \in Nat /\ Len(Projection') \in Nat
  BY ProjectionType DEF Snapshots
<1>2. ASSUME NEW P \in Snapshots
      PROVE  /\ Len(P) \in Nat /\ Len(P) <= Len(Projection')
             /\ ToSet(P) \subseteq ToSet(Projection')
             /\ Len(Projection') <= Len(P) => ToSet(Projection') \subseteq ToSet(P)
  <2>1. Len(P) \in Nat /\ Len(P) <= Len(Projection) /\ ToSet(P) \subseteq ToSet(Projection)
    BY <1>1, SnapshotsType DEF InOrder
  <2>2. CASE Projection' = Projection
    BY <1>1, <2>1, <2>2 DEF InOrder
  <2>3. CASE Len(Projection') > Len(Projection) /\ ToSet(Projection) \subseteq ToSet(Projection')
    BY <1>1, <2>1, <2>3
  <2>4. QED
    BY <2>2, <2>3
<1>3. ASSUME NEW P \in Snapshots', NEW Q \in Snapshots', Len(P) <= Len(Q)
      PROVE  ToSet(P) \subseteq ToSet(Q)
  <2>1. CASE P \in Snapshots /\ Q \in Snapshots
    BY <1>3, <2>1 DEF InOrder
  <2>2. CASE Q = Projection'
    BY <1>2, <2>2
  <2>3. CASE P = Projection' /\ Q \in Snapshots
    BY <1>2, <1>3, <2>3
  <2>4. QED
    BY <2>1, <2>2, <2>3
<1>4. ASSUME NEW P \in Snapshots' PROVE Len(P) <= Len(Projection')
  BY <1>1, <1>2
<1>5. QED
  BY <1>3, <1>4 DEF InOrder

\* What a step has to do to keep the invariant, if it does not concern the page.
LEMMA HistoryKept ==
  ASSUME ViewType, ViewType', ~eventLog.shrunk => HistoryOK,
         eventLog.shrunk => eventLog'.shrunk,
         ~eventLog'.shrunk =>
           \/ Projection' = Projection
           \/ Len(Projection') > Len(Projection) /\ ToSet(Projection) \subseteq ToSet(Projection'),
         ~eventLog'.shrunk => Snapshots' \subseteq Snapshots \cup {Projection'},
         Len(index'.events) >= Len(index.events),
         ~eventLog'.shrunk => \A v \in Views :
           RequestCurrent(v)' \/ (requests'[v] = requests[v] /\ (index'.open => index.open))
  PROVE  ~eventLog'.shrunk => HistoryOK'
<1>. SUFFICES ASSUME ~eventLog'.shrunk PROVE HistoryOK'
  OBVIOUS
<1>1. HistoryOK /\ InOrder'
  BY OrderKept DEF HistoryOK
<1>2. ASSUME NEW v \in Views PROVE RequestCurrent(v)'
  <2>1. CASE requests'[v] = requests[v] /\ (index'.open => index.open)
    <3>1. RequestCurrent(v)
      BY <1>1 DEF HistoryOK
    <3>2. Len(index.events) \in Nat /\ Len(index'.events) \in Nat
      BY LenProperties DEF ViewType, IndexType, Events
    <3>3. requests[v] \in HistoryRequest => Len(requests[v].asked) \in Nat
      BY LenProperties DEF HistoryRequest, Events
    <3>4. QED
      BY <2>1, <3>1, <3>2, <3>3 DEF RequestCurrent
  <2>2. QED
    BY <2>1
<1>3. QED
  BY <1>1, <1>2 DEF HistoryOK

LEMMA PageKept ==
  ASSUME ViewType, ViewType', PageOK, page' = page, index'.open = index.open,
         eventLog'.version >= eventLog.version,
         \A v \in Views : \/ requests'[v] = requests[v] \/ requests'[v].phase # "telling"
                          \/ requests'[v].version <= eventLog'.version
  PROVE  PageOK'
<1>1. /\ eventLog.version \in Nat /\ eventLog'.version \in Nat /\ page.told \in Nat
      /\ \A v \in Views : requests[v].phase = "telling" => requests[v].version \in Nat
  BY RequestPhases DEF ViewType, LogType, PageType, TellingRequest
<1>2. QED
  BY <1>1 DEF PageOK
-----------------------------------------------------------------------------
LEMMA ViewInitially == ViewInit => ViewInv
<1>. SUFFICES ASSUME ViewInit PROVE ViewInv
  OBVIOUS
<1>1. ViewType
  BY ViewTypeInitially
<1>2. \A v \in Views : requests[v] = NoRequest /\ requests[v] \notin HistoryRequest
  BY DEF ViewInit, NoRequest, HistoryRequest
<1>3. Projection = <<0>> /\ index.events = <<>> /\ Snapshots = {Projection, index.events}
  <2>1. Projection = <<0>>
    <3>1. <<0>> \o <<>> = <<0>> /\ eventLog.accepted = <<0>> /\ eventLog.pending = <<>>
      BY DEF ViewInit
    <3>2. QED
      BY <3>1 DEF Projection
  <2>2. QED
    BY <1>2, <2>1 DEF Snapshots, ViewInit, NoRequest
<1>4. Len(<<0>>) = 1 /\ Len(<<>>) = 0 /\ ToSet(<<>>) = {}
  BY DEF ToSet
<1>5. HistoryOK
  BY <1>2, <1>3, <1>4 DEF HistoryOK, InOrder, RequestCurrent, NoRequest
<1>6. PageOK
  <2>1. /\ ~page.stream /\ page.told = 0 /\ eventLog.version = 0
        /\ \A v \in Views : requests[v].phase # "telling"
    BY <1>2 DEF ViewInit, NoRequest
  <2>2. QED
    BY <2>1 DEF PageOK, Informed
<1>7. QED
  BY <1>1, <1>5, <1>6 DEF ViewInv

LEMMA SnapshotsAfter ==
  ASSUME index'.events \in Snapshots \cup {Projection'},
         \A w \in Views : requests'[w] = requests[w] \/
           /\ requests'[w].phase = "rebuilding" => requests'[w].read \in Snapshots \cup {Projection'}
           /\ requests'[w] \in HistoryRequest => requests'[w].asked \in Snapshots \cup {Projection'}
  PROVE  Snapshots' \subseteq Snapshots \cup {Projection'}
<1>1. ASSUME NEW w \in Views, requests'[w].phase = "rebuilding"
      PROVE  requests'[w].read \in Snapshots \cup {Projection'}
  BY <1>1 DEF Snapshots
<1>2. ASSUME NEW w \in Views, requests'[w] \in HistoryRequest
      PROVE  requests'[w].asked \in Snapshots \cup {Projection'}
  BY <1>2 DEF Snapshots
<1>3. QED
  BY <1>1, <1>2 DEF Snapshots

\* A request goes on; the log and the index stay.
LEMMA RequestKeeps ==
  ASSUME ViewInv, NEW v \in Views, NEW next \in RequestType, Proceeding(v, next),
         UNCHANGED <<eventLog, index>>, page' \in PageType,
         ~eventLog.shrunk => RequestCurrent(v)',
         next.phase = "rebuilding" => next.read \in Snapshots \cup {Projection},
         next \in HistoryRequest => next.asked \in Snapshots \cup {Projection}
  PROVE  ViewType' /\ (~eventLog'.shrunk => HistoryOK')
<1>1. /\ requests' \in [Views -> RequestType] /\ requests'[v] = next
      /\ \A w \in Views \ {v} : requests'[w] = requests[w]
  BY Proceeded DEF ViewInv
<1>2. ViewType'
  BY <1>1 DEF ViewInv, ViewType
<1>3. Projection' = Projection
  BY DEF Projection
<1>4. Snapshots' \subseteq Snapshots \cup {Projection'}
  <2>1. index'.events \in Snapshots
    BY DEF Snapshots
  <2>2. QED
    BY <1>1, <1>3, <2>1, SnapshotsAfter
<1>5. \A w \in Views : RequestCurrent(w)' \/ (requests'[w] = requests[w] /\ (index'.open => index.open))
      \/ eventLog.shrunk
  BY <1>1
<1>6. Len(index'.events) >= Len(index.events)
  <2>1. Len(index.events) \in Nat
    BY LenProperties DEF ViewInv, ViewType, IndexType, Events
  <2>2. QED
    BY <2>1
<1>7. QED
  BY <1>2, <1>3, <1>4, <1>5, <1>6, HistoryKept DEF ViewInv

\* A request that is of no kind holds no version of the log.
LEMMA NothingHeld ==
  /\ NoRequest \in RequestType /\ NoRequest.phase = "idle" /\ NoRequest \notin HistoryRequest
  /\ \A n \in Nat : LET next == [phase |-> "telling", version |-> n]
                    IN next \in RequestType /\ next \notin HistoryRequest
  /\ \A m \in SUBSET Nat : LET next == [phase |-> "answered", missing |-> m]
                           IN next \in RequestType /\ next \notin HistoryRequest
  BY DEF NoRequest, RequestType, HistoryRequest, TellingRequest, AnsweredRequest

LEMMA AskHistoryStep ==
  ASSUME ViewInv, NEW v \in Views, AskHistory(v)
  PROVE  ViewInv'
<1>. DEFINE next == [phase |-> "asked", kind |-> "history", asked |-> Projection,
                     read |-> <<>>, fresh |-> FALSE]
<1>1. /\ Proceeding(v, next) /\ UNCHANGED <<eventLog, index, page>>
      /\ next.phase = "asked" /\ next.asked = Projection
  BY DEF AskHistory
<1>2. next \in RequestType
  <2>1. Projection \in Events /\ <<>> \in Events
    BY ProjectionType DEF ViewInv, Events
  <2>2. QED
    BY <2>1 DEF RequestType, HistoryRequest
<1>. HIDE DEF next
<1>3. /\ requests'[v] = next /\ \A w \in Views \ {v} : requests'[w] = requests[w]
  BY <1>1, <1>2, Proceeded DEF ViewInv
<1>4. RequestCurrent(v)'
  BY <1>1, <1>3 DEF RequestCurrent
<1>5. ViewType' /\ (~eventLog'.shrunk => HistoryOK')
  BY <1>1, <1>2, <1>4, RequestKeeps DEF ViewInv, ViewType
<1>6. PageOK'
  BY <1>1, <1>3, <1>5, PageKept DEF ViewInv, ViewType, LogType
<1>7. QED
  BY <1>5, <1>6 DEF ViewInv

LEMMA AnswerHistoryStep ==
  ASSUME ViewInv, NEW v \in Views, AnswerHistory(v)
  PROVE  ViewInv'
<1>. DEFINE answer == IF IndexAnswers(v) THEN index.events ELSE Projection
            missing == ToSet(requests[v].asked) \ ToSet(answer)
            next == [phase |-> "answered", missing |-> missing]
<1>1. /\ Proceeding(v, next) /\ UNCHANGED <<eventLog, index, page>>
      /\ next.phase = "answered" /\ next.missing = missing
  BY DEF AnswerHistory
<1>2. requests[v] \in HistoryRequest /\ requests[v].phase = "refreshed"
  BY RequestPhases DEF AnswerHistory, WritingRequest, ViewInv
<1>3. missing \in SUBSET Nat
  <2>1. requests[v].asked \in Events
    BY <1>2 DEF HistoryRequest
  <2>2. QED
    BY <2>1, LenProperties DEF Events, ToSet
<1>4. ~eventLog.shrunk => missing = {}
  <2>. SUFFICES ASSUME ~eventLog.shrunk PROVE ToSet(requests[v].asked) \subseteq ToSet(answer)
    OBVIOUS
  <2>1. InOrder /\ RequestCurrent(v)
    BY DEF ViewInv, HistoryOK
  <2>2. requests[v].asked \in Snapshots /\ Projection \in Snapshots /\ index.events \in Snapshots
    BY <1>2 DEF Snapshots
  <2>3. Len(requests[v].asked) <= Len(answer)
    BY <1>2, <2>1, <2>2 DEF InOrder, RequestCurrent, IndexAnswers
  <2>4. QED
    BY <2>1, <2>2, <2>3 DEF InOrder
<1>. HIDE DEF missing
<1>5. next \in RequestType /\ next \notin HistoryRequest
  BY <1>3, NothingHeld
<1>. HIDE DEF next
<1>6. /\ requests'[v] = next /\ \A w \in Views \ {v} : requests'[w] = requests[w]
  BY <1>1, <1>5, Proceeded DEF ViewInv
<1>7. ~eventLog.shrunk => RequestCurrent(v)'
  BY <1>1, <1>4, <1>5, <1>6 DEF RequestCurrent
<1>8. ViewType' /\ (~eventLog'.shrunk => HistoryOK')
  BY <1>1, <1>5, <1>7, RequestKeeps DEF ViewInv, ViewType
<1>9. PageOK'
  BY <1>1, <1>6, <1>8, PageKept DEF ViewInv, ViewType, LogType
<1>10. QED
  BY <1>8, <1>9 DEF ViewInv

LEMMA RefreshIndexStep ==
  ASSUME ViewInv, NEW v \in Views, RefreshIndex(v)
  PROVE  ViewInv'
<1>. DEFINE phase == IF index.open THEN "rebuilding" ELSE "refreshed"
            fresh == TRUE
            next == Reading(requests[v], phase, Projection, fresh)
<1>1. /\ requests[v] \in HistoryRequest \cup WritingRequest
      /\ Proceeding(v, next) /\ UNCHANGED <<eventLog, index, page>>
  BY RequestPhases DEF RefreshIndex, ViewInv, Reading
<1>2. phase \in {"rebuilding", "refreshed"} /\ (phase = "refreshed" => ~index.open) 
      /\ Projection \in Events /\ fresh \in BOOLEAN
  BY ProjectionType DEF ViewInv
<1>. HIDE DEF phase, fresh
<1>3. /\ next \in RequestType /\ next.phase = phase /\ next.read = Projection
      /\ next \in HistoryRequest => requests[v] \in HistoryRequest /\ next.asked = requests[v].asked
  BY <1>1, <1>2, ReadingRequest
<1>. HIDE DEF next
<1>4. /\ requests'[v] = next /\ \A w \in Views \ {v} : requests'[w] = requests[w]
  BY <1>1, <1>3, Proceeded DEF ViewInv
<1>5. requests[v] \in HistoryRequest => requests[v].asked \in Snapshots
  BY DEF Snapshots
<1>6. ~eventLog.shrunk => RequestCurrent(v)'
  BY <1>1, <1>2, <1>3, <1>4, <1>5 DEF RequestCurrent, ViewInv, HistoryOK, InOrder
<1>7. ViewType' /\ (~eventLog'.shrunk => HistoryOK')
  BY <1>1, <1>3, <1>5, <1>6, RequestKeeps DEF ViewInv, ViewType
<1>8. PageOK'
  BY <1>1, <1>2, <1>3, <1>4, <1>7, PageKept DEF ViewInv, ViewType, LogType
<1>9. QED
  BY <1>7, <1>8 DEF ViewInv

LEMMA RebuildIndexStep ==
  ASSUME ViewInv, NEW v \in Views, RebuildIndex(v)
  PROVE  ViewInv'
<1>1. PICK fresh \in BOOLEAN :
           /\ requests[v] \in HistoryRequest \cup WritingRequest
           /\ requests'[v] = Reading(requests[v], "refreshed", <<>>, fresh)
           /\ requests' \in [Views -> RequestType]
           /\ \A w \in Views \ {v} : requests'[w] = requests[w]
           /\ index' \in IndexType /\ index'.open = index.open
           /\ index'.events \in {index.events, requests[v].read}
           /\ Len(index'.events) >= Len(index.events)
           /\ fresh => Len(index'.events) = Len(requests[v].read)
  BY RebuildIndexEffect DEF ViewInv
<1>2. requests[v].phase = "rebuilding" /\ UNCHANGED <<eventLog, page>>
  BY DEF RebuildIndex
<1>3. <<>> \in Events
  BY DEF Events
<1>4. /\ requests'[v].phase = "refreshed" /\ requests'[v].fresh = fresh
      /\ requests'[v] \in HistoryRequest =>
           requests[v] \in HistoryRequest /\ requests'[v].asked = requests[v].asked
  BY <1>1, <1>3, ReadingRequest
<1>5. ViewType'
  BY <1>1, <1>2 DEF ViewInv, ViewType
<1>6. /\ index'.events \in Snapshots
      /\ requests[v] \in HistoryRequest => requests[v].asked \in Snapshots
  BY <1>1, <1>2 DEF Snapshots
<1>7. Snapshots' \subseteq Snapshots \cup {Projection'} /\ Projection' = Projection
  BY <1>1, <1>2, <1>4, <1>6, SnapshotsAfter DEF Projection
<1>8. ~eventLog.shrunk => RequestCurrent(v)'
  BY <1>1, <1>2, <1>4 DEF RequestCurrent, ViewInv, HistoryOK
<1>9. ~eventLog'.shrunk => HistoryOK'
  BY <1>1, <1>2, <1>5, <1>7, <1>8, HistoryKept DEF ViewInv
<1>10. PageOK'
  BY <1>1, <1>2, <1>4, <1>5, PageKept DEF ViewInv, ViewType, LogType
<1>11. QED
  BY <1>5, <1>9, <1>10 DEF ViewInv

LEMMA LogStep ==
  ASSUME ViewInv, LogChanges, UNCHANGED <<index, requests, page>>
  PROVE  ViewInv'
<1>1. /\ eventLog' \in LogType /\ eventLog'.version >= eventLog.version
      /\ eventLog.shrunk => eventLog'.shrunk
      /\ ~eventLog'.shrunk => /\ Len(Projection') > Len(Projection)
                              /\ ToSet(Projection) \subseteq ToSet(Projection')
  BY LogGrows DEF ViewInv
<1>2. ViewType'
  BY <1>1 DEF ViewInv, ViewType
<1>3. Snapshots' \subseteq Snapshots \cup {Projection'}
  <2>1. index'.events \in Snapshots
    BY DEF Snapshots
  <2>2. QED
    BY <2>1, SnapshotsAfter
<1>4. Len(index'.events) >= Len(index.events)
  BY LenProperties DEF ViewInv, ViewType, IndexType, Events
<1>5. ~eventLog'.shrunk => HistoryOK'
  BY <1>1, <1>2, <1>3, <1>4, HistoryKept DEF ViewInv
<1>6. PageOK'
  BY <1>1, <1>2, PageKept DEF ViewInv
<1>7. QED
  BY <1>2, <1>5, <1>6 DEF ViewInv

LEMMA WriteRequestStep ==
  ASSUME ViewInv, NEW v \in Views, WriteRequest(v)
  PROVE  ViewInv'
<1>. DEFINE next == [phase |-> "written", kind |-> "write", read |-> <<>>, fresh |-> FALSE]
<1>1. /\ eventLog' \in LogType /\ eventLog'.version >= eventLog.version
      /\ eventLog.shrunk => eventLog'.shrunk
      /\ ~eventLog'.shrunk => /\ Len(Projection') > Len(Projection)
                              /\ ToSet(Projection) \subseteq ToSet(Projection')
  BY LogGrows DEF ViewInv
<1>2. Proceeding(v, next) /\ UNCHANGED <<index, page>> /\ next.phase = "written"
  BY DEF WriteRequest
<1>3. next \in RequestType /\ next \notin HistoryRequest
  BY DEF RequestType, WritingRequest, HistoryRequest, Events
<1>. HIDE DEF next
<1>4. /\ requests' \in [Views -> RequestType] /\ requests'[v] = next
      /\ \A w \in Views \ {v} : requests'[w] = requests[w]
  BY <1>2, <1>3, Proceeded DEF ViewInv
<1>5. ViewType'
  BY <1>1, <1>2, <1>4 DEF ViewInv, ViewType
<1>6. Snapshots' \subseteq Snapshots \cup {Projection'}
  <2>1. index'.events \in Snapshots
    BY <1>2 DEF Snapshots
  <2>2. QED
    BY <1>2, <1>3, <1>4, <2>1, SnapshotsAfter
<1>7. Len(index'.events) >= Len(index.events) /\ RequestCurrent(v)'
  BY <1>2, <1>3, <1>4, LenProperties DEF ViewInv, ViewType, IndexType, Events, RequestCurrent
<1>8. ~eventLog'.shrunk => HistoryOK'
  BY <1>1, <1>2, <1>4, <1>5, <1>6, <1>7, HistoryKept DEF ViewInv
<1>9. PageOK'
  BY <1>1, <1>2, <1>4, <1>5, PageKept DEF ViewInv
<1>10. QED
  BY <1>5, <1>8, <1>9 DEF ViewInv

\* A request ends, or is told by its own request alone.
LEMMA EndedRequestStep ==
  ASSUME ViewInv, NEW v \in Views, Snapshot(v) \/ ClientGone(v)
  PROVE  ViewInv'
<1>1. PICK next : /\ next \in RequestType /\ next \notin HistoryRequest /\ Proceeding(v, next)
                  /\ next.phase \in {"idle", "telling"}
                  /\ next.phase = "telling" => next.version = eventLog.version
  <2>1. CASE Snapshot(v)
    <3>. DEFINE next == [phase |-> "telling", version |-> eventLog.version]
    <3>1. next \in RequestType /\ next \notin HistoryRequest
      BY NothingHeld DEF ViewInv, ViewType, LogType
    <3>2. Proceeding(v, next) /\ next.phase = "telling" /\ next.version = eventLog.version
      BY <2>1 DEF Snapshot
    <3>. HIDE DEF next
    <3>3. QED
      BY <3>1, <3>2
  <2>2. CASE ClientGone(v)
    BY <2>2, NothingHeld DEF ClientGone
  <2>3. QED
    BY <2>1, <2>2
<1>2. UNCHANGED <<eventLog, index, page>>
  BY DEF Snapshot, ClientGone
<1>3. /\ requests'[v] = next /\ \A w \in Views \ {v} : requests'[w] = requests[w]
  BY <1>1, Proceeded DEF ViewInv
<1>4. RequestCurrent(v)'
  BY <1>1, <1>3 DEF RequestCurrent
<1>5. ViewType' /\ (~eventLog'.shrunk => HistoryOK')
  BY <1>1, <1>2, <1>4, RequestKeeps DEF ViewInv, ViewType
<1>6. eventLog'.version >= eventLog.version /\ (next.phase = "telling" => next.version <= eventLog'.version)
  BY <1>1, <1>2 DEF ViewInv, ViewType, LogType
<1>7. PageOK'
  BY <1>2, <1>3, <1>5, <1>6, PageKept DEF ViewInv
<1>8. QED
  BY <1>5, <1>7 DEF ViewInv

LEMMA BroadcastStep ==
  ASSUME ViewInv, NEW v \in Views, BroadcastCurrentState(v)
  PROVE  ViewInv'
<1>. DEFINE version == requests[v].version
            told == Max({page.told, version})
            inbox == IF page.stream THEN Offer(page.inbox, version) ELSE <<>>
<1>1. /\ requests[v].phase = "telling" /\ version \in Nat /\ version <= eventLog.version
      /\ page \in PageType /\ page.told \in Nat /\ page.told <= eventLog.version
      /\ eventLog.version \in Nat
  BY RequestPhases DEF BroadcastCurrentState, ViewInv, ViewType, PageOK, TellingRequest, PageType, LogType
<1>2. told \in Nat /\ told <= eventLog.version
  BY <1>1, MaxOfTwo
<1>3. /\ inbox \in {<<>>} \cup {<<n>> : n \in Nat}
      /\ page.stream => inbox # <<>>
  BY <1>1 DEF Offer, PageType
<1>4. page' = [page EXCEPT !.told = told, !.inbox = inbox]
  BY DEF BroadcastCurrentState
<1>. HIDE DEF told, inbox
<1>5. page' = [stream |-> page.stream, inbox |-> inbox, wire |-> page.wire,
               fetches |-> page.fetches, shown |-> page.shown, answered |-> page.answered,
               told |-> told]
  BY <1>1, <1>4 DEF PageType
<1>6. page' \in PageType
  BY <1>1, <1>2, <1>3, <1>5 DEF PageType
<1>7. Proceeding(v, NoRequest) /\ UNCHANGED <<eventLog, index>>
  BY DEF BroadcastCurrentState
<1>8. /\ requests'[v] = NoRequest /\ \A w \in Views \ {v} : requests'[w] = requests[w]
  BY <1>7, NothingHeld, Proceeded DEF ViewInv
<1>9. RequestCurrent(v)'
  BY <1>8, NothingHeld DEF RequestCurrent
<1>10. ViewType' /\ (~eventLog'.shrunk => HistoryOK')
  BY <1>6, <1>7, <1>9, NothingHeld, RequestKeeps
<1>11. PageOK'
  BY <1>2, <1>3, <1>5, <1>7, <1>8, NothingHeld DEF PageOK, ViewInv, Informed
<1>12. QED
  BY <1>10, <1>11 DEF ViewInv

LEMMA DisconnectedPage ==
  ASSUME NEW p \in PageType
  PROVE  /\ Disconnected(p) \in PageType /\ Disconnected(p).told = p.told
         /\ ~Disconnected(p).stream /\ Informed(Disconnected(p))
<1>. DEFINE down == FALSE
<1>1. Disconnected(p) = [p EXCEPT !.stream = down, !.inbox = <<>>, !.wire = <<>>]
  BY DEF Disconnected
<1>2. down \in BOOLEAN /\ ~down /\ <<>> \in Seq(Nat)
  OBVIOUS
<1>. HIDE DEF down
<1>3. Disconnected(p) = [stream |-> down, inbox |-> <<>>, wire |-> <<>>, fetches |-> p.fetches,
                         shown |-> p.shown, answered |-> p.answered, told |-> p.told]
  BY <1>1 DEF PageType
<1>4. QED
  BY <1>2, <1>3 DEF PageType, Informed

\* What is fetched anew is not answered yet, and what was fetched before is not the last.
LEMMA Refetched ==
  ASSUME NEW p \in PageType
  PROVE  /\ Refetches(p) \in PageType /\ Informed(Refetches(p))
         /\ Refetches(p).told = p.told /\ Refetches(p).stream = p.stream
<1>. DEFINE no == FALSE
            yes == TRUE
            old == [i \in DOMAIN p.fetches |-> [p.fetches[i] EXCEPT !.last = no]]
            new == [phase |-> "asked", version |-> 0, last |-> yes]
            fetches == Append(old, new)
<1>1. Refetches(p) = [p EXCEPT !.answered = no, !.fetches = fetches]
  BY DEF Refetches
<1>2. no \in BOOLEAN /\ yes \in BOOLEAN /\ ~no
  OBVIOUS
<1>. HIDE DEF no, yes
<1>3. /\ p.fetches \in Seq(FetchType) /\ Len(p.fetches) \in Nat
      /\ DOMAIN p.fetches = 1..Len(p.fetches)
      /\ \A i \in 1..Len(p.fetches) : p.fetches[i] \in FetchType
  BY LenProperties, ElementOfSeq DEF PageType
<1>4. \A i \in 1..Len(p.fetches) :
        [p.fetches[i] EXCEPT !.last = no] \in FetchType /\ [p.fetches[i] EXCEPT !.last = no].last = no
  BY <1>2, <1>3 DEF FetchType
<1>5. /\ old \in Seq(FetchType) /\ Len(old) = Len(p.fetches)
      /\ \A i \in 1..Len(old) : old[i].last = no
  <2>1. old \in [1..Len(p.fetches) -> FetchType] /\ \A i \in 1..Len(p.fetches) : old[i].last = no
    BY <1>3, <1>4
  <2>. HIDE DEF old
  <2>2. QED
    BY <1>3, <2>1
<1>6. new \in FetchType /\ new.phase = "asked"
  BY <1>2 DEF FetchType
<1>. HIDE DEF old, new
<1>7. /\ fetches \in Seq(FetchType) /\ Len(fetches) = Len(old) + 1
      /\ \A i \in 1..Len(old) : fetches[i] = old[i]
      /\ fetches[Len(old) + 1] = new
  BY <1>5, <1>6, AppendProperties
<1>. HIDE DEF fetches
<1>8. FetchesOK(fetches, p.told)
  <2>1. DOMAIN fetches = 1..Len(old) + 1 /\ Len(old) \in Nat
    BY <1>3, <1>5, <1>7, LenProperties
  <2>2. ASSUME NEW i \in DOMAIN fetches, fetches[i].last, fetches[i].phase = "read" PROVE FALSE
    BY <1>2, <1>5, <1>6, <1>7, <2>1, <2>2
  <2>3. QED
    BY <2>2 DEF FetchesOK
<1>9. Refetches(p) = [stream |-> p.stream, inbox |-> p.inbox, wire |-> p.wire,
                      fetches |-> fetches, shown |-> p.shown, answered |-> no, told |-> p.told]
  BY <1>1 DEF PageType
<1>10. QED
  BY <1>2, <1>7, <1>8, <1>9 DEF PageType, Informed

LEMMA RemovedFetch ==
  ASSUME NEW s \in Seq(FetchType), NEW i \in DOMAIN s, NEW n \in Nat
  PROVE  RemoveAt(s, i) \in Seq(FetchType) /\ (FetchesOK(s, n) => FetchesOK(RemoveAt(s, i), n))
<1>. DEFINE a == SubSeq(s, 1, i - 1)
            b == SubSeq(s, i + 1, Len(s))
<1>1. /\ Len(s) \in Nat /\ DOMAIN s = 1..Len(s) /\ i \in 1..Len(s)
      /\ \A j \in 1..Len(s) : s[j] \in FetchType
  BY LenProperties, ElementOfSeq
<1>2. /\ a \in Seq(FetchType) /\ Len(a) = i - 1
      /\ \A j \in 1..i - 1 : a[j] = s[j]
  <2>1. \A j \in 1..i - 1 : s[j] \in FetchType
    BY <1>1
  <2>2. /\ a \in Seq(FetchType) /\ Len(a) = IF 1 <= i - 1 THEN i - 1 - 1 + 1 ELSE 0
        /\ \A j \in 1..i - 1 - 1 + 1 : a[j] = s[1 + j - 1]
    BY <1>1, <2>1, SubSeqProperties
  <2>3. QED
    BY <1>1, <2>2
<1>3. /\ b \in Seq(FetchType) /\ Len(b) = Len(s) - i
      /\ \A j \in 1..Len(s) - i : b[j] = s[i + j]
  <2>1. \A j \in i + 1..Len(s) : s[j] \in FetchType
    BY <1>1
  <2>2. /\ b \in Seq(FetchType)
        /\ Len(b) = IF i + 1 <= Len(s) THEN Len(s) - (i + 1) + 1 ELSE 0
        /\ \A j \in 1..Len(s) - (i + 1) + 1 : b[j] = s[i + 1 + j - 1]
    BY <1>1, <2>1, SubSeqProperties
  <2>. HIDE DEF b
  <2>3. Len(b) = Len(s) - i
    BY <1>1, <2>2
  <2>4. ASSUME NEW j \in 1..Len(s) - i PROVE b[j] = s[i + j]
    <3>1. j \in 1..Len(s) - (i + 1) + 1 /\ i + 1 + j - 1 = i + j
      BY <1>1
    <3>2. QED
      BY <2>2, <3>1
  <2>5. QED
    BY <2>2, <2>3, <2>4
<1>4. RemoveAt(s, i) = a \o b
  BY DEF RemoveAt
<1>. HIDE DEF a, b
<1>5. /\ a \o b \in Seq(FetchType) /\ Len(a \o b) = Len(a) + Len(b)
      /\ \A j \in 1..Len(a) + Len(b) : (a \o b)[j] = IF j <= Len(a) THEN a[j] ELSE b[j - Len(a)]
  BY <1>2, <1>3, ConcatProperties
<1>6. ASSUME NEW j \in DOMAIN (a \o b)
      PROVE  \E k \in DOMAIN s : (a \o b)[j] = s[k]
  <2>1. j \in 1..Len(s) - 1 /\ (a \o b)[j] = IF j <= i - 1 THEN a[j] ELSE b[j - (i - 1)]
    <3>1. DOMAIN (a \o b) = 1..Len(a) + Len(b)
      BY <1>5, LenProperties
    <3>2. QED
      BY <1>1, <1>2, <1>3, <1>5, <3>1
  <2>2. CASE j <= i - 1
    <3>1. j \in DOMAIN s /\ (a \o b)[j] = s[j]
      BY <1>1, <1>2, <2>1, <2>2
    <3>2. QED
      BY <3>1
  <2>3. CASE ~(j <= i - 1)
    <3>1. j - (i - 1) \in 1..Len(s) - i /\ i + (j - (i - 1)) = j + 1 /\ j + 1 \in DOMAIN s
      BY <1>1, <2>1, <2>3
    <3>2. (a \o b)[j] = s[j + 1]
      BY <1>3, <2>1, <2>3, <3>1
    <3>3. QED
      BY <3>1, <3>2
  <2>4. QED
    BY <2>2, <2>3
<1>7. QED
  BY <1>4, <1>5, <1>6 DEF FetchesOK

LEMMA ServerStep ==
  ASSUME ViewInv, ServerChanges
  PROVE  ViewInv'
<1>. USE DEF ViewInv
<1>1. UNCHANGED <<eventLog, requests>>
  BY DEF ServerChanges, CloseServer, OpenServer
<1>2. /\ index' \in IndexType /\ index'.events = index.events
      /\ CloseServer => ~index'.open
      /\ OpenServer => ~index.open
  BY DEF ServerChanges, CloseServer, OpenServer, ViewType, IndexType
<1>3. /\ page' \in PageType /\ page'.told = page.told
      /\ page'.stream => page' = page /\ page.stream /\ ~CloseServer
      /\ Informed(page')
  <2>1. CASE CloseServer
    <3>1. page' = Disconnected(page)
      BY <2>1 DEF CloseServer
    <3>2. QED
      BY <3>1, DisconnectedPage DEF ViewType
  <2>2. CASE OpenServer
    BY <2>2 DEF OpenServer, CloseServer, ViewType, PageOK
  <2>3. QED
    BY <2>1, <2>2 DEF ServerChanges
<1>4. ViewType'
  BY <1>1, <1>2, <1>3 DEF ViewType
<1>5. Projection' = Projection /\ Snapshots' = Snapshots
  BY <1>1, <1>2 DEF Projection, Snapshots
<1>6. Len(index'.events) >= Len(index.events)
  BY <1>2, LenProperties DEF ViewType, IndexType, Events
<1>7. ASSUME ~eventLog.shrunk, NEW v \in Views
      PROVE  RequestCurrent(v)' \/ (requests'[v] = requests[v] /\ (index'.open => index.open))
  <2>1. CASE CloseServer
    BY <1>1, <1>2, <2>1
  <2>2. CASE OpenServer
    <3>1. requests'[v].phase \in {"idle", "answered"} /\ requests'[v] = requests[v]
      BY <1>1, <2>2 DEF OpenServer
    <3>2. QED
      BY <1>7, <3>1 DEF RequestCurrent, HistoryOK
  <2>3. QED
    BY <2>1, <2>2 DEF ServerChanges
<1>8. ~eventLog'.shrunk => HistoryOK'
  BY <1>1, <1>4, <1>5, <1>6, <1>7, HistoryKept
<1>9. PageOK'
  BY <1>1, <1>2, <1>3 DEF PageOK, ServerChanges
<1>10. QED
  BY <1>4, <1>8, <1>9

PageSteps ==
  \/ OpenStream \/ SendMessage \/ CloseStream \/ HearMessage \/ RefreshPage
  \/ \E i \in DOMAIN page.fetches : FetchProject(i) \/ TakeProject(i) \/ FailFetch(i)

LEMMA PageStep ==
  ASSUME ViewInv, PageSteps
  PROVE  ViewInv'
<1>. USE DEF ViewInv
<1>1. UNCHANGED <<eventLog, index, requests>>
  BY DEF PageSteps, OpenStream, SendMessage, CloseStream, HearMessage, RefreshPage, FetchProject,
         TakeProject, FailFetch
<1>2. /\ page \in PageType /\ Informed(page) /\ page.told <= eventLog.version
      /\ eventLog.version \in Nat /\ page.shown \in Nat /\ page.told \in Nat
      /\ page.wire \in Seq(Nat) /\ page.fetches \in Seq(FetchType)
      /\ page.stream \in BOOLEAN /\ page.answered \in BOOLEAN
      /\ page.inbox \in {<<>>} \cup {<<n>> : n \in Nat}
  BY DEF ViewType, PageType, PageOK, LogType
<1>3. /\ page' \in PageType /\ Informed(page') /\ page'.told = page.told
      /\ page'.stream => page.stream \/ index.open
  <2>1. CASE OpenStream
    <3>. DEFINE up == TRUE
                wire == <<eventLog.version>>
    <3>1. page' = [page EXCEPT !.stream = up, !.wire = wire] /\ index.open
      BY <2>1 DEF OpenStream
    <3>2. up \in BOOLEAN /\ wire \in Seq(Nat) /\ wire # <<>>
      BY <1>2
    <3>. HIDE DEF up, wire
    <3>3. page' = [stream |-> up, inbox |-> page.inbox, wire |-> wire, fetches |-> page.fetches,
                   shown |-> page.shown, answered |-> page.answered, told |-> page.told]
      BY <1>2, <3>1 DEF PageType
    <3>4. QED
      BY <1>2, <3>1, <3>2, <3>3 DEF PageType, Informed
  <2>2. CASE SendMessage
    <3>. DEFINE wire == page.wire \o page.inbox
    <3>1. page' = [page EXCEPT !.inbox = <<>>, !.wire = wire] /\ page.inbox # <<>>
      BY <2>2 DEF SendMessage
    <3>2. PICK n \in Nat : page.inbox = <<n>>
      BY <1>2, <3>1
    <3>3. wire \in Seq(Nat) /\ wire # <<>>
      <4>1. <<n>> \in Seq(Nat) /\ wire = page.wire \o <<n>> /\ <<n>> # <<>>
        BY <3>2
      <4>2. page.wire \o <<n>> \in Seq(Nat)
        BY <1>2, <4>1, ConcatProperties
      <4>3. page.wire \o <<n>> # <<>>
        BY <1>2, <4>1, ConcatEqualIffEmpty
      <4>4. QED
        BY <4>1, <4>2, <4>3
    <3>. HIDE DEF wire
    <3>4. page' = [stream |-> page.stream, inbox |-> <<>>, wire |-> wire,
                   fetches |-> page.fetches, shown |-> page.shown, answered |-> page.answered,
                   told |-> page.told]
      BY <1>2, <3>1 DEF PageType
    <3>5. QED
      BY <1>2, <3>3, <3>4 DEF PageType, Informed
  <2>3. CASE CloseStream
    BY <1>2, <2>3, DisconnectedPage DEF CloseStream
  <2>4. CASE HearMessage
    <3>. DEFINE wire == Tail(page.wire)
                version == Head(page.wire)
                p == [page EXCEPT !.wire = wire, !.shown = version]
    <3>1. wire \in Seq(Nat) /\ version \in Nat
      BY <1>2, <2>4, HeadTailProperties DEF HearMessage
    <3>2. page' = Refetches(p)
      <4>1. page' = Refetches([[page EXCEPT !.wire = wire] EXCEPT !.shown = version])
        BY <2>4 DEF HearMessage, Heard
      <4>2. [[page EXCEPT !.wire = wire] EXCEPT !.shown = version] = p
        BY <1>2 DEF PageType
      <4>3. QED
        BY <4>1, <4>2
    <3>. HIDE DEF wire, version
    <3>3. p \in PageType /\ p.told = page.told /\ p.stream = page.stream
      BY <1>2, <3>1 DEF PageType
    <3>4. QED
      BY <3>2, <3>3, Refetched
  <2>5. CASE RefreshPage
    BY <1>2, <2>5, Refetched DEF RefreshPage
  <2>6. ASSUME NEW i \in DOMAIN page.fetches, FetchProject(i) \/ TakeProject(i) \/ FailFetch(i)
        PROVE  /\ page' \in PageType /\ Informed(page') /\ page'.told = page.told
               /\ page'.stream => page.stream \/ index.open
    <3>1. /\ i \in 1..Len(page.fetches) /\ page.fetches[i] \in FetchType
          /\ page.fetches[i].version \in Nat /\ page.fetches[i].last \in BOOLEAN
      <4>1. i \in 1..Len(page.fetches)
        BY <1>2, LenProperties
      <4>2. page.fetches[i] \in FetchType
        BY <1>2, <4>1, ElementOfSeq
      <4>3. QED
        BY <4>1, <4>2 DEF FetchType
    <3>2. ASSUME NEW fetches \in Seq(FetchType),
                 FetchesOK(page.fetches, page.told) => FetchesOK(fetches, page.told),
                 page' = [page EXCEPT !.fetches = fetches]
          PROVE  /\ page' \in PageType /\ Informed(page') /\ page'.told = page.told
                 /\ page'.stream => page.stream
      <4>1. page' = [stream |-> page.stream, inbox |-> page.inbox, wire |-> page.wire,
                     fetches |-> fetches, shown |-> page.shown, answered |-> page.answered,
                     told |-> page.told]
        BY <1>2, <3>2 DEF PageType
      <4>2. QED
        BY <1>2, <3>2, <4>1 DEF PageType, Informed
    <3>3. ASSUME NEW fetch \in FetchType,
                 fetch.phase = "read" => fetch.version = eventLog.version,
                 page' = [page EXCEPT !.fetches = [page.fetches EXCEPT ![i] = fetch]]
          PROVE  /\ page' \in PageType /\ Informed(page') /\ page'.told = page.told
                 /\ page'.stream => page.stream
      <4>. DEFINE fetches == [page.fetches EXCEPT ![i] = fetch]
      <4>1. /\ fetches \in Seq(FetchType) /\ Len(fetches) = Len(page.fetches)
            /\ \A j \in 1..Len(page.fetches) :
                 fetches[j] = IF j = i THEN fetch ELSE page.fetches[j]
        BY <1>2, <3>1, ExceptSeq
      <4>2. page' = [page EXCEPT !.fetches = fetches]
        BY <3>3
      <4>. HIDE DEF fetches
      <4>3. DOMAIN fetches = 1..Len(page.fetches) /\ DOMAIN page.fetches = 1..Len(page.fetches)
        BY <1>2, <4>1, LenProperties
      <4>4. FetchesOK(page.fetches, page.told) => FetchesOK(fetches, page.told)
        BY <1>2, <3>3, <4>1, <4>3 DEF FetchesOK
      <4>5. QED
        BY <3>2, <4>1, <4>2, <4>4
    <3>4. CASE FetchProject(i)
      <4>. DEFINE taken == [page.fetches[i] EXCEPT !.phase = "taken"]
                  read == [page.fetches[i] EXCEPT !.phase = "read", !.version = eventLog.version]
      <4>1. /\ taken \in FetchType /\ taken.phase = "taken"
            /\ read \in FetchType /\ read.version = eventLog.version
        BY <1>2, <3>1 DEF FetchType
      <4>2. \/ page' = [page EXCEPT !.fetches = [page.fetches EXCEPT ![i] = taken]]
            \/ page' = [page EXCEPT !.fetches = [page.fetches EXCEPT ![i] = read]]
        <5>1. CASE page' = [page EXCEPT !.fetches[i].phase = "taken"]
          BY <1>2, <5>1 DEF PageType
        <5>2. CASE page' = [page EXCEPT !.fetches[i].phase = "read",
                                        !.fetches[i].version = eventLog.version]
          BY <1>2, <3>1, <5>2 DEF PageType, FetchType
        <5>3. QED
          BY <3>4, <5>1, <5>2 DEF FetchProject
      <4>. HIDE DEF taken, read
      <4>3. QED
        BY <3>3, <4>1, <4>2
    <3>5. RemoveAt(page.fetches, i) \in Seq(FetchType)
          /\ (FetchesOK(page.fetches, page.told) => FetchesOK(RemoveAt(page.fetches, i), page.told))
      BY <1>2, RemovedFetch
    <3>6. CASE TakeProject(i)
      <4>. DEFINE fetches == RemoveAt(page.fetches, i)
                  version == page.fetches[i].version
                  last == page.fetches[i].last
      <4>1. /\ page' = [page EXCEPT !.shown = version, !.answered = last, !.fetches = fetches]
            /\ page.fetches[i].phase = "read"
        BY <3>6 DEF TakeProject
      <4>2. FetchesOK(page.fetches, page.told) => (last => version >= page.told)
        BY <2>6, <4>1 DEF FetchesOK
      <4>3. fetches \in Seq(FetchType) /\ version \in Nat /\ last \in BOOLEAN
        BY <3>1, <3>5
      <4>4. FetchesOK(page.fetches, page.told) => FetchesOK(fetches, page.told)
        BY <3>5
      <4>. HIDE DEF fetches, version, last
      <4>5. page' = [stream |-> page.stream, inbox |-> page.inbox, wire |-> page.wire,
                     fetches |-> fetches, shown |-> version, answered |-> last,
                     told |-> page.told]
        BY <1>2, <4>1 DEF PageType
      <4>6. QED
        BY <1>2, <4>2, <4>3, <4>4, <4>5 DEF PageType, Informed
    <3>7. CASE FailFetch(i)
      BY <3>2, <3>5, <3>7 DEF FailFetch
    <3>8. QED
      BY <2>6, <3>4, <3>6, <3>7
  <2>7. QED
    BY <2>1, <2>2, <2>3, <2>4, <2>5, <2>6 DEF PageSteps
<1>4. ViewType'
  BY <1>1, <1>3 DEF ViewType
<1>5. Projection' = Projection /\ Snapshots' = Snapshots
  BY <1>1 DEF Projection, Snapshots
<1>6. ~eventLog'.shrunk => HistoryOK'
  BY <1>1, <1>5 DEF HistoryOK, InOrder, RequestCurrent
<1>7. PageOK'
  BY <1>1, <1>3 DEF PageOK
<1>8. QED
  BY <1>4, <1>6, <1>7

LEMMA ViewStep == ViewInv /\ [HistoryNext \/ PageNext]_viewVars => ViewInv'
<1>. SUFFICES ASSUME ViewInv, [HistoryNext \/ PageNext]_viewVars PROVE ViewInv'
  OBVIOUS
<1>1. CASE UNCHANGED viewVars
  <2>1. UNCHANGED <<eventLog, index, requests, page>>
    BY <1>1 DEF viewVars
  <2>2. Projection' = Projection /\ Snapshots' = Snapshots
    BY <2>1 DEF Projection, Snapshots
  <2>3. ViewType' /\ PageOK'
    BY <2>1 DEF ViewInv, ViewType, PageOK
  <2>4. HistoryOK => HistoryOK'
    BY <2>1, <2>2 DEF HistoryOK, InOrder, RequestCurrent
  <2>5. QED
    BY <2>1, <2>3, <2>4 DEF ViewInv
<1>2. CASE LogChanges
  BY <1>2, LogStep DEF LogChanges, ImportAccepted, SettlePending, AppendElsewhere
<1>3. CASE ServerChanges
  BY <1>3, ServerStep
<1>4. CASE \E v \in Views : Serves(v)
  BY <1>4, WriteRequestStep, RefreshIndexStep, RebuildIndexStep, BroadcastStep, EndedRequestStep
     DEF Serves
<1>5. CASE \E v \in Views : AskHistory(v) \/ AnswerHistory(v)
  BY <1>5, AskHistoryStep, AnswerHistoryStep
<1>6. CASE PageSteps
  BY <1>6, PageStep
<1>7. QED
  BY <1>1, <1>2, <1>3, <1>4, <1>5, <1>6 DEF HistoryNext, PageNext, PageSteps

LEMMA ViewInvariant == ViewSpec => []ViewInv
<1>. QED
  BY ViewInitially, ViewStep, PTL DEF ViewSpec

\* For every number of requests, servers one after the other and changes of the log: a history
\* answer, from the index or the log, has every event the log had when it was asked, as long as
\* nothing has left the pending batches.
THEOREM HistoryIsCurrent == ViewSpec => []HistoryCurrent
<1>1. ViewInv => HistoryCurrent
  BY DEF ViewInv, HistoryOK, RequestCurrent, HistoryCurrent
<1>2. QED
  BY <1>1, ViewInvariant, PTL

\* However many requests tell, in whatever order, however often the stream is opened again and
\* however many fetches are under way, fail or are overtaken: a page that has heard every message
\* and shows the answer to its last fetch shows what it was told of.
THEOREM PageHasCaughtUp == ViewSpec => []LastAnswerCatchesUp
<1>1. ViewInv => LastAnswerCatchesUp
  BY DEF ViewInv, PageOK, Informed, LastAnswerCatchesUp
<1>2. QED
  BY <1>1, ViewInvariant, PTL
-----------------------------------------------------------------------------
(***************************************************************************)
(* The local Core.  What looks at core.json, compares it, removes it or    *)
(* starts a core does so under core-start.lock, its own or that of the     *)
(* Ensure that waits for it; a core serves under core.lock.                *)
(***************************************************************************)
Phases == {"ended", "launch", "start", "look", "post", "compare", "remove", "core", "publish",
           "serving", "spawn", "wait"}
Ops == {"none", "serve", "ensure", "open", "stop", "cleanup"}
ProcessType == [phase : Phases, op : Ops, key : Nat, parent : Processes \cup {Nobody}]

CoreType ==
  /\ process \in [Processes -> ProcessType]
  /\ keys \in Nat /\ metadata \in 0..keys /\ adrift \in BOOLEAN
  /\ \A p \in Processes : process[p].key <= keys

\* What a process of each kind does, and who has started it.
KindOK(x) ==
  /\ x.op \in {"ensure", "open"} => x.parent = Nobody
  /\ x.phase \in {"spawn", "wait"} => x.op \in {"ensure", "open"}
  /\ x.op = "open" => x.phase \in {"launch", "look", "spawn", "wait"}
  /\ x.phase = "launch" => x.op = "open"
  /\ x.op = "cleanup" => x.phase \in {"start", "compare", "remove"}

\* A core serves, or is about to, under core.lock.
CoreLocked == \A p \in Processes : process[p].phase \in {"publish", "serving"} => core = p

ActivePhases == {"look", "post", "compare", "remove", "core", "publish", "spawn"}
Active(x) == x.phase \in ActivePhases /\ x.op # "open"

Holder(p) ==
  \/ starting = p
  \/ process[p].parent \in Processes /\ starting = process[p].parent /\ In(process[p].parent, "wait")

StartLocked ==
  /\ \A p \in Processes : Active(process[p]) => Holder(p)
  /\ \A p, q \in Processes : Active(process[p]) /\ Active(process[q]) => p = q

\* A core whose core.json may be removed is gone, or has been told to end, or was doubted.
Excused == doubted \cup stopped
Gone(cores, excused, key) ==
  key \in excused \/ \A p \in Processes : cores[p].phase = "serving" => cores[p].key # key
MayRemove(x) == x.op = "cleanup" \/ x.phase \in {"compare", "remove"}

RemovalOK ==
  \A p \in Processes :
    /\ MayRemove(process[p]) => Gone(process, Excused, process[p].key)
    /\ In(p, "remove") => metadata = process[p].key
    /\ In(p, "serving") /\ process[p].key \notin Excused => metadata = process[p].key

CoreInv ==
  /\ CoreType /\ CoreLocked
  /\ \A p \in Processes : KindOK(process[p])
  /\ ~adrift => StartLocked /\ RemovalOK
-----------------------------------------------------------------------------
\* A process that goes on to another phase.
LEMMA PhaseMoves ==
  ASSUME NEW x \in ProcessType, NEW phase \in Phases, NEW next, next = [x EXCEPT !.phase = phase]
  PROVE  /\ next \in ProcessType /\ next.phase = phase /\ next.op = x.op
         /\ next.key = x.key /\ next.parent = x.parent
<1>1. next = [phase |-> phase, op |-> x.op, key |-> x.key, parent |-> x.parent]
  BY DEF ProcessType
<1>2. QED
  BY <1>1 DEF ProcessType

WithKey(x, phase, key) == [x EXCEPT !.phase = phase, !.key = key]

LEMMA KeyMoves ==
  ASSUME NEW x \in ProcessType, NEW phase \in Phases, NEW key \in Nat
  PROVE  LET next == WithKey(x, phase, key)
         IN  /\ next \in ProcessType /\ next.phase = phase /\ next.op = x.op
             /\ next.key = key /\ next.parent = x.parent
<1>. SUFFICES ASSUME NEW next, next = WithKey(x, phase, key)
     PROVE  /\ next \in ProcessType /\ next.phase = phase /\ next.op = x.op
            /\ next.key = key /\ next.parent = x.parent
  OBVIOUS
<1>1. next = [phase |-> phase, op |-> x.op, key |-> key, parent |-> x.parent]
  BY DEF ProcessType, WithKey
<1>2. QED
  BY <1>1 DEF ProcessType

WithOp(x, phase, op) == [x EXCEPT !.phase = phase, !.op = op]

LEMMA OpMoves ==
  ASSUME NEW x \in ProcessType, NEW phase \in Phases, NEW op \in Ops
  PROVE  LET next == WithOp(x, phase, op)
         IN  /\ next \in ProcessType /\ next.phase = phase /\ next.op = op
             /\ next.key = x.key /\ next.parent = x.parent
<1>. SUFFICES ASSUME NEW next, next = WithOp(x, phase, op)
     PROVE  /\ next \in ProcessType /\ next.phase = phase /\ next.op = op
            /\ next.key = x.key /\ next.parent = x.parent
  OBVIOUS
<1>1. next = [phase |-> phase, op |-> op, key |-> x.key, parent |-> x.parent]
  BY DEF ProcessType, WithOp
<1>2. QED
  BY <1>1 DEF ProcessType

LEMMA EndedProcess ==
  /\ Ended \in ProcessType /\ Ended.phase = "ended" /\ Ended.key = 0 /\ Ended.parent = Nobody
  /\ Ended.op = "none"
BY DEF Ended, ProcessType, Phases, Ops, NoKey

LEMMA BegunProcess ==
  ASSUME NEW op \in Ops, NEW phase \in Phases, NEW parent \in Processes \cup {Nobody},
         NEW next, next = Begun(op, phase, parent)
  PROVE  /\ next \in ProcessType /\ next.phase = phase /\ next.op = op
         /\ next.key = 0 /\ next.parent = parent
BY DEF Begun, ProcessType, NoKey

\* What is not of the process that moves: core.json stays, or is removed by it.
Quiet(p) ==
  /\ keys' = keys /\ doubted \subseteq doubted' /\ stopped \subseteq stopped'
  /\ adrift' \in BOOLEAN /\ (~adrift' => ~adrift)
  /\ metadata' = metadata \/ (metadata' = NoKey /\ In(p, "remove"))

\* No core serves with a key after p has moved that did not before.
LEMMA GoneStays ==
  ASSUME CoreType, NEW p \in Processes, NEW next \in ProcessType,
         process' = [process EXCEPT ![p] = next],
         doubted \subseteq doubted', stopped \subseteq stopped',
         NEW key, Gone(process, Excused, key), next.phase # "serving" \/ next.key # key
  PROVE  Gone(process', Excused', key)
<1>1. \A q \in Processes : process'[q] = IF q = p THEN next ELSE process[q]
  BY DEF CoreType
<1>2. QED
  BY <1>1 DEF Gone, Excused

\* core.json names a core that serves as before: what p removes is of a core that is gone.
LEMMA QuietKeepsRemoval ==
  ASSUME CoreInv, NEW p \in Processes, NEW next \in ProcessType,
         process' = [process EXCEPT ![p] = next], Quiet(p), ~adrift',
         next.phase # "serving", KindOK(next),
         next.phase = "remove" => metadata' = next.key,
         MayRemove(next) => Gone(process', Excused', next.key)
  PROVE  RemovalOK'
<1>1. \A q \in Processes : process'[q] = IF q = p THEN next ELSE process[q]
  BY DEF CoreInv, CoreType
<1>2. ~adrift /\ StartLocked /\ RemovalOK /\ CoreType /\ \A q \in Processes : KindOK(process[q])
  BY DEF CoreInv, Quiet
<1>. SUFFICES ASSUME NEW q \in Processes
     PROVE  /\ MayRemove(process'[q]) => Gone(process', Excused', process'[q].key)
            /\ process'[q].phase = "remove" => metadata' = process'[q].key
            /\ process'[q].phase = "serving" /\ process'[q].key \notin Excused'
                 => metadata' = process'[q].key
  BY DEF RemovalOK, In
<1>3. CASE q = p
  BY <1>1, <1>3
<1>4. CASE q # p
  <2>1. process'[q] = process[q]
    BY <1>1, <1>4
  <2>2. MayRemove(process[q]) => Gone(process', Excused', process[q].key)
    BY <1>2, GoneStays DEF RemovalOK, Quiet
  <2>3. process[q].phase = "remove" => metadata' = process[q].key
    <3>. SUFFICES ASSUME process[q].phase = "remove", In(p, "remove") PROVE FALSE
      BY <1>2 DEF RemovalOK, Quiet, In
    <3>1. Active(process[q]) /\ Active(process[p])
      BY <1>2 DEF Active, ActivePhases, KindOK, In
    <3>2. QED
      BY <1>2, <1>4, <3>1 DEF StartLocked
  <2>4. ASSUME process[q].phase = "serving", process[q].key \notin Excused'
        PROVE  metadata' = process[q].key
    <3>1. metadata = process[q].key /\ process[q].key \notin Excused
      BY <1>2, <2>4 DEF RemovalOK, Quiet, In, Excused
    <3>2. ~In(p, "remove")
      <4>. SUFFICES ASSUME In(p, "remove") PROVE FALSE
        OBVIOUS
      <4>1. MayRemove(process[p]) /\ metadata = process[p].key
        BY <1>2 DEF MayRemove, RemovalOK, In
      <4>2. Gone(process, Excused, process[q].key)
        BY <1>2, <3>1, <4>1 DEF RemovalOK
      <4>3. QED
        BY <2>4, <3>1, <4>2 DEF Gone
    <3>3. QED
      BY <3>1, <3>2 DEF Quiet
  <2>5. QED
    BY <2>1, <2>2, <2>3, <2>4
<1>5. QED
  BY <1>3, <1>4

\* A step of p that takes and releases neither lock.
LEMMA MoveKeepsCore ==
  ASSUME CoreInv, NEW p \in Processes, NEW next \in ProcessType,
         process' = [process EXCEPT ![p] = next], Quiet(p), starting' = starting, core' = core,
         next.key <= keys, KindOK(next), next.phase \notin {"publish", "serving"}, ~In(p, "wait"),
         Active(next) => Active(process[p]) /\ next.parent = process[p].parent,
         next.phase = "remove" => metadata' = next.key,
         ~adrift' /\ MayRemove(next) => Gone(process', Excused', next.key)
  PROVE  CoreInv'
<1>1. \A q \in Processes : process'[q] = IF q = p THEN next ELSE process[q]
  BY DEF CoreInv, CoreType
<1>2. CoreType'
  BY DEF CoreInv, CoreType, Quiet, NoKey
<1>3. CoreLocked' /\ \A q \in Processes : KindOK(process'[q])
  BY <1>1 DEF CoreInv, CoreLocked
<1>4. ASSUME ~adrift' PROVE StartLocked' /\ RemovalOK'
  <2>1. StartLocked
    BY <1>4 DEF CoreInv, Quiet
  <2>2. \A q \in Processes : Active(process'[q]) => Active(process[q]) /\ process'[q].parent = process[q].parent
    BY <1>1
  <2>3. \A q \in Processes : process[q].phase = "wait" => process'[q].phase = "wait"
    BY <1>1 DEF In
  <2>4. \A q \in Processes : Active(process'[q]) => Holder(q)'
    BY <2>1, <2>2, <2>3 DEF StartLocked, Holder, In
  <2>5. \A q, r \in Processes : Active(process'[q]) /\ Active(process'[r]) => q = r
    BY <2>1, <2>2 DEF StartLocked
  <2>6. QED
    BY <1>4, <2>4, <2>5, QuietKeepsRemoval DEF StartLocked, Active
<1>5. QED
  BY <1>2, <1>3, <1>4 DEF CoreInv, KindOK

\* A command that ends unlocks what it holds.
LEMMA OverKeepsCore ==
  ASSUME CoreInv, NEW p \in Processes, Over(p), Quiet(p),
         ~adrift' => \A q \in Processes : Active(process[q]) => process[q].parent # p \/ ~In(p, "wait")
  PROVE  CoreInv'
<1>. DEFINE next == Ended
<1>1. /\ next \in ProcessType /\ next.phase = "ended" /\ next.key = 0 /\ next.op = "none"
      /\ process' = [process EXCEPT ![p] = next]
      /\ starting' = Unlocked(starting, p) /\ core' = Unlocked(core, p)
  BY EndedProcess DEF Over, Moves, ReleaseAll
<1>. HIDE DEF next
<1>2. \A q \in Processes : process'[q] = IF q = p THEN next ELSE process[q]
  BY <1>1 DEF CoreInv, CoreType
<1>3. CoreType'
  BY <1>1, <1>2 DEF CoreInv, CoreType, Quiet, NoKey
<1>4. CoreLocked'
  BY <1>1, <1>2 DEF CoreInv, CoreLocked, Unlocked
<1>5. KindOK(next)
  BY <1>1 DEF KindOK
<1>6. ASSUME ~adrift' PROVE StartLocked' /\ RemovalOK'
  <2>1. StartLocked
    BY <1>6 DEF CoreInv, Quiet
  <2>2. ~Active(next)
    BY <1>1 DEF Active, ActivePhases
  <2>3. ASSUME NEW q \in Processes, Active(process'[q]) PROVE Holder(q)'
    <3>1. q # p /\ process'[q] = process[q] /\ Active(process[q]) /\ Holder(q)
      BY <1>2, <2>1, <2>2, <2>3 DEF StartLocked
    <3>2. CASE starting = q
      BY <1>1, <3>1, <3>2 DEF Holder, Unlocked
    <3>3. CASE process[q].parent \in Processes /\ starting = process[q].parent /\ In(process[q].parent, "wait")
      <4>1. process[q].parent # p
        BY <1>6, <3>1, <3>3
      <4>2. QED
        BY <1>1, <1>2, <3>1, <3>3, <4>1 DEF Holder, Unlocked, In
    <3>4. QED
      BY <3>1, <3>2, <3>3 DEF Holder
  <2>4. \A q, r \in Processes : Active(process'[q]) /\ Active(process'[r]) => q = r
    BY <1>2, <2>1, <2>2 DEF StartLocked
  <2>5. RemovalOK'
    BY <1>1, <1>5, <1>6, QuietKeepsRemoval DEF MayRemove
  <2>6. QED
    BY <2>3, <2>4, <2>5 DEF StartLocked
<1>7. QED
  BY <1>2, <1>3, <1>4, <1>5, <1>6 DEF CoreInv
-----------------------------------------------------------------------------
LEMMA BeginKeepsCore ==
  ASSUME CoreInv, NEW p \in Processes, NEW op \in {"serve", "ensure", "open", "stop"}, Begin(p, op)
  PROVE  CoreInv'
<1>. DEFINE phase == IF op = "open" THEN "launch" ELSE "start"
            next == Begun(op, phase, Nobody)
<1>1. /\ next \in ProcessType /\ next.phase = phase /\ next.op = op /\ next.key = 0
      /\ next.parent = Nobody
  BY BegunProcess DEF Ops, Phases
<1>2. process' = [process EXCEPT ![p] = next] /\ In(p, "ended")
      /\ starting' = starting /\ core' = core
  BY DEF Begin, Moves, lockVars
<1>3. Quiet(p)
  BY DEF Begin, Quiet, ghostVars, CoreInv, CoreType
<1>4. phase \in {"launch", "start"} /\ (phase = "launch" <=> op = "open")
  OBVIOUS
<1>. HIDE DEF next, phase
<1>5. KindOK(next) /\ ~Active(next) /\ ~MayRemove(next) /\ next.phase # "remove"
  BY <1>1, <1>4 DEF KindOK, Active, ActivePhases, MayRemove
<1>6. next.key <= keys /\ ~In(p, "wait")
  BY <1>1, <1>2 DEF CoreInv, CoreType, In
<1>7. QED
  BY <1>1, <1>2, <1>3, <1>4, <1>5, <1>6, MoveKeepsCore

LEMMA LaunchKeepsCore ==
  ASSUME CoreInv, NEW p \in Processes, TakeLaunchLock(p)
  PROVE  CoreInv'
<1>. DEFINE next == [process[p] EXCEPT !.phase = "look"]
<1>1. process[p] \in ProcessType /\ KindOK(process[p]) /\ process[p].key <= keys
  BY DEF CoreInv, CoreType
<1>2. /\ next \in ProcessType /\ next.phase = "look" /\ next.op = process[p].op
      /\ next.key = process[p].key /\ next.parent = process[p].parent
  BY <1>1, PhaseMoves DEF Phases
<1>3. process' = [process EXCEPT ![p] = next] /\ In(p, "launch")
      /\ starting' = starting /\ core' = core
  BY DEF TakeLaunchLock, MovesTo, Moves
<1>4. Quiet(p)
  BY DEF TakeLaunchLock, Quiet, ghostVars, CoreInv, CoreType
<1>. HIDE DEF next
<1>5. KindOK(next) /\ ~Active(next) /\ ~MayRemove(next)
  BY <1>1, <1>2, <1>3 DEF KindOK, Active, MayRemove, In
<1>6. ~In(p, "wait")
  BY <1>3 DEF In
<1>7. QED
  BY <1>1, <1>2, <1>3, <1>4, <1>5, <1>6, MoveKeepsCore

\* With nobody under core-start.lock no process is active.
LEMMA StartupKeepsCore ==
  ASSUME CoreInv, NEW p \in Processes, TakeStartupLock(p)
  PROVE  CoreInv'
<1>. DEFINE phase == IF Op(p) = "cleanup" THEN "compare" ELSE "look"
            next == [process[p] EXCEPT !.phase = phase]
<1>1. process[p] \in ProcessType /\ KindOK(process[p]) /\ process[p].key <= keys
  BY DEF CoreInv, CoreType
<1>2. /\ next \in ProcessType /\ next.phase = phase /\ next.op = process[p].op
      /\ next.key = process[p].key /\ next.parent = process[p].parent
  BY <1>1, PhaseMoves DEF Phases
<1>3. /\ process' = [process EXCEPT ![p] = next] /\ In(p, "start")
      /\ starting = Nobody /\ starting' = p /\ core' = core
  BY DEF TakeStartupLock, MovesTo, Moves
<1>4. Quiet(p) /\ adrift' = adrift /\ metadata' = metadata
  BY DEF TakeStartupLock, Quiet, ghostVars, CoreInv, CoreType
<1>5. phase \in {"compare", "look"} /\ (phase = "compare" <=> process[p].op = "cleanup")
  BY DEF Op
<1>. HIDE DEF next, phase
<1>6. KindOK(next) /\ next.phase # "remove" /\ next.phase # "serving"
  BY <1>1, <1>2, <1>3, <1>5 DEF KindOK, In
<1>7. \A q \in Processes : process'[q] = IF q = p THEN next ELSE process[q]
  BY <1>3 DEF CoreInv, CoreType
<1>8. CoreType'
  BY <1>1, <1>2, <1>3, <1>7 DEF CoreInv, CoreType, TakeStartupLock, ghostVars
<1>9. CoreLocked' /\ \A q \in Processes : KindOK(process'[q])
  BY <1>2, <1>3, <1>5, <1>6, <1>7 DEF CoreInv, CoreLocked
<1>10. ASSUME ~adrift' PROVE StartLocked' /\ RemovalOK'
  <2>1. StartLocked /\ RemovalOK
    BY <1>4, <1>10 DEF CoreInv
  <2>2. \A q \in Processes : ~Active(process[q])
    BY <1>3, <2>1, ProcessesAssumption DEF StartLocked, Holder
  <2>3. StartLocked'
    BY <1>3, <1>7, <2>2 DEF StartLocked, Holder
  <2>4. MayRemove(next) => Gone(process', Excused', next.key)
    <3>. SUFFICES ASSUME MayRemove(next) PROVE Gone(process', Excused', next.key)
      OBVIOUS
    <3>1. process[p].op = "cleanup"
      BY <1>2, <1>5 DEF MayRemove
    <3>2. Gone(process, Excused, next.key)
      BY <1>2, <2>1, <3>1 DEF RemovalOK, MayRemove
    <3>3. QED
      BY <1>2, <1>3, <1>4, <1>6, <3>2, GoneStays DEF CoreInv, Quiet
  <2>5. QED
    BY <1>2, <1>3, <1>4, <1>6, <1>10, <2>3, <2>4, QuietKeepsRemoval
<1>11. QED
  BY <1>8, <1>9, <1>10 DEF CoreInv

LEMMA OnwardsKeepsCore ==
  ASSUME CoreInv, NEW p \in Processes, Onwards(p), Quiet(p),
         process[p].phase \in {"look", "compare", "remove"}
  PROVE  CoreInv'
<1>1. process[p] \in ProcessType /\ KindOK(process[p]) /\ process[p].key <= keys /\ ~In(p, "wait")
  BY DEF CoreInv, CoreType, In
<1>2. ASSUME NEW phase \in {"core", "spawn"}, MovesTo(p, phase), UNCHANGED lockVars,
             phase = "core" => Op(p) = "serve", phase = "spawn" => Op(p) \in {"ensure", "open"}
      PROVE  CoreInv'
  <2>. DEFINE next == [process[p] EXCEPT !.phase = phase]
  <2>1. /\ next \in ProcessType /\ next.phase = phase /\ next.op = process[p].op
        /\ next.key = process[p].key /\ next.parent = process[p].parent
    BY <1>1, PhaseMoves DEF Phases
  <2>2. process' = [process EXCEPT ![p] = next] /\ starting' = starting /\ core' = core
    BY <1>2 DEF MovesTo, Moves, lockVars
  <2>. HIDE DEF next
  <2>3. KindOK(next) /\ ~MayRemove(next)
    BY <1>1, <1>2, <2>1 DEF KindOK, MayRemove, Op
  <2>4. Active(next) => Active(process[p])
    BY <2>1 DEF Active, ActivePhases
  <2>5. next.key <= keys /\ next.phase \notin {"publish", "serving"} /\ next.phase # "remove"
    BY <1>1, <1>2, <2>1
  <2>6. QED
    BY <1>1, <2>1, <2>2, <2>3, <2>4, <2>5, MoveKeepsCore
<1>3. CASE Over(p)
  BY <1>1, <1>3, OverKeepsCore
<1>4. QED
  BY <1>2, <1>3 DEF Onwards

LEMMA LookKeepsCore ==
  ASSUME CoreInv, NEW p \in Processes, Look(p)
  PROVE  CoreInv'
<1>1. /\ process[p] \in ProcessType /\ KindOK(process[p]) /\ process[p].phase = "look"
      /\ metadata' = metadata /\ keys' = keys /\ metadata \in Nat /\ metadata <= keys
  BY DEF CoreInv, CoreType, Look, In
<1>2. CASE metadata = NoKey /\ Onwards(p) /\ UNCHANGED ghostVars
  BY <1>1, <1>2, OnwardsKeepsCore DEF Quiet, ghostVars, CoreInv, CoreType
<1>3. ASSUME NEW healthy \in BOOLEAN, Check(p, metadata, healthy) PROVE Quiet(p)
  BY <1>1, <1>3 DEF Quiet, Check, CoreInv, CoreType
<1>4. ASSUME NEW healthy \in BOOLEAN, Check(p, metadata, healthy), Over(p) PROVE CoreInv'
  BY <1>1, <1>3, <1>4, OverKeepsCore DEF In
<1>5. ASSUME NEW healthy \in BOOLEAN, Check(p, metadata, healthy), Onwards(p) PROVE CoreInv'
  BY <1>1, <1>3, <1>5, OnwardsKeepsCore
<1>6. ASSUME NEW healthy \in BOOLEAN, Check(p, metadata, healthy), NEW phase \in {"post", "compare"},
             Moves(p, [process[p] EXCEPT !.phase = phase, !.key = metadata]), UNCHANGED lockVars,
             Op(p) # "open", phase = "compare" => ~healthy, phase = "post" => Op(p) = "stop"
      PROVE  CoreInv'
  <2>. DEFINE next == WithKey(process[p], phase, metadata)
  <2>1. /\ next \in ProcessType /\ next.phase = phase /\ next.op = process[p].op
        /\ next.key = metadata /\ next.parent = process[p].parent
    <3>1. phase \in Phases
      BY DEF Phases
    <3>2. QED
      BY <1>1, <3>1, KeyMoves
  <2>2. process' = [process EXCEPT ![p] = next] /\ starting' = starting /\ core' = core
    BY <1>6 DEF Moves, lockVars, WithKey
  <2>. HIDE DEF next
  <2>3. KindOK(next) /\ Active(process[p]) /\ ~In(p, "wait")
        /\ next.phase \notin {"publish", "serving", "remove"}
    BY <1>1, <1>6, <2>1 DEF KindOK, Active, ActivePhases, Op, In
  <2>4. \A q \in Processes : process'[q] = IF q = p THEN next ELSE process[q]
    BY <2>2 DEF CoreInv, CoreType
  <2>5. ASSUME ~adrift', MayRemove(next) PROVE Gone(process', Excused', next.key)
    <3>1. CASE phase = "compare"
      <4>1. ~healthy
        BY <1>6, <3>1
      <4>2. CASE Serving(metadata)
        <5>1. metadata \in doubted'
          BY <1>6, <4>1, <4>2 DEF Check
        <5>2. QED
          BY <2>1, <5>1 DEF Gone, Excused
      <4>3. CASE ~Serving(metadata)
        BY <2>1, <2>3, <2>4, <4>3 DEF Serving, In, Gone
      <4>4. QED
        BY <4>2, <4>3
    <3>2. CASE phase = "post"
      <4>1. process[p].op = "cleanup"
        BY <2>1, <2>5, <3>2 DEF MayRemove
      <4>2. Op(p) = "stop"
        BY <1>6, <3>2
      <4>3. QED
        BY <4>1, <4>2 DEF Op
    <3>3. QED
      BY <3>1, <3>2
  <2>6. QED
    BY <1>1, <1>3, <1>6, <2>1, <2>2, <2>3, <2>5, MoveKeepsCore
<1>7. QED
  BY <1>2, <1>4, <1>5, <1>6 DEF Look, Op

LEMMA StopKeepsCore ==
  ASSUME CoreInv, NEW p \in Processes, PostStop(p)
  PROVE  CoreInv'
<1>1. process[p] \in ProcessType /\ KindOK(process[p]) /\ process[p].phase = "post"
      /\ process[p].key <= keys /\ Quiet(p) /\ process[p].key \in doubted' \cup stopped'
  BY DEF CoreInv, CoreType, PostStop, In, Quiet
<1>2. CASE Over(p)
  BY <1>1, <1>2, OverKeepsCore DEF In
<1>3. CASE MovesTo(p, "compare") /\ UNCHANGED lockVars
  <2>. DEFINE next == [process[p] EXCEPT !.phase = "compare"]
  <2>1. /\ next \in ProcessType /\ next.phase = "compare" /\ next.op = process[p].op
        /\ next.key = process[p].key /\ next.parent = process[p].parent
    BY <1>1, PhaseMoves DEF Phases
  <2>2. process' = [process EXCEPT ![p] = next] /\ starting' = starting /\ core' = core
    BY <1>3 DEF MovesTo, Moves, lockVars
  <2>. HIDE DEF next
  <2>3. KindOK(next) /\ Active(process[p]) /\ ~In(p, "wait")
    BY <1>1, <2>1 DEF KindOK, Active, ActivePhases, In
  <2>4. Gone(process', Excused', next.key)
    BY <1>1, <2>1 DEF Gone, Excused
  <2>5. QED
    BY <1>1, <2>1, <2>2, <2>3, <2>4, MoveKeepsCore
<1>4. QED
  BY <1>2, <1>3 DEF PostStop

LEMMA CompareKeepsCore ==
  ASSUME CoreInv, NEW p \in Processes, CompareKey(p)
  PROVE  CoreInv'
<1>1. process[p] \in ProcessType /\ KindOK(process[p]) /\ process[p].phase = "compare"
      /\ process[p].key <= keys /\ Quiet(p) /\ adrift' = adrift
      /\ doubted' = doubted /\ stopped' = stopped
  BY DEF CoreInv, CoreType, CompareKey, In, Quiet, ghostVars
<1>2. CASE Onwards(p)
  BY <1>1, <1>2, OnwardsKeepsCore
<1>3. CASE Owned(p) /\ MovesTo(p, "remove") /\ UNCHANGED lockVars
  <2>. DEFINE next == [process[p] EXCEPT !.phase = "remove"]
  <2>1. /\ next \in ProcessType /\ next.phase = "remove" /\ next.op = process[p].op
        /\ next.key = process[p].key /\ next.parent = process[p].parent
    BY <1>1, PhaseMoves DEF Phases
  <2>2. process' = [process EXCEPT ![p] = next] /\ starting' = starting /\ core' = core
        /\ metadata' = next.key
    BY <1>3, <2>1 DEF MovesTo, Moves, lockVars, Owned, CompareKey
  <2>. HIDE DEF next
  <2>3. KindOK(next) /\ Active(process[p]) /\ ~In(p, "wait")
    BY <1>1, <2>1 DEF KindOK, Active, ActivePhases, In
  <2>4. ASSUME ~adrift' PROVE Gone(process', Excused', next.key)
    <3>1. Gone(process, Excused, next.key)
      BY <1>1, <2>1, <2>4 DEF CoreInv, RemovalOK, MayRemove
    <3>2. QED
      BY <1>1, <2>1, <2>2, <3>1, GoneStays DEF CoreInv
  <2>5. QED
    BY <1>1, <2>1, <2>2, <2>3, <2>4, MoveKeepsCore
<1>4. QED
  BY <1>2, <1>3 DEF CompareKey

LEMMA RemoveKeepsCore ==
  ASSUME CoreInv, NEW p \in Processes, RemoveMetadata(p)
  PROVE  CoreInv'
BY OnwardsKeepsCore DEF RemoveMetadata, Quiet, ghostVars, In, CoreInv, CoreType

LEMMA WaitedKeepsCore ==
  ASSUME CoreInv, NEW p \in Processes, Waited(p)
  PROVE  CoreInv'
<1>1. Quiet(p)
  BY DEF Waited, Quiet, CoreInv, CoreType
<1>2. ASSUME ~adrift', NEW q \in Processes, Active(process[q]) PROVE process[q].parent # p
  BY <1>2 DEF Waited, Pending, Active, ActivePhases
<1>3. QED
  BY <1>1, <1>2, OverKeepsCore DEF Waited

LEMMA GivesUpKeepsCore ==
  ASSUME CoreInv, NEW p \in Processes, GivesUp(p)
  PROVE  CoreInv'
<1>1. Quiet(p) /\ ~In(p, "wait") /\ Over(p)
  BY DEF GivesUp, Quiet, ghostVars, In, CoreInv, CoreType
<1>2. QED
  BY <1>1, OverKeepsCore

LEMMA ProjectLockKeepsCore ==
  ASSUME CoreInv, NEW p \in Processes, TakeProjectLock(p)
  PROVE  CoreInv'
<1>. DEFINE next == [process[p] EXCEPT !.phase = "publish"]
<1>1. process[p] \in ProcessType /\ KindOK(process[p]) /\ process[p].phase = "core"
      /\ process[p].key <= keys /\ Quiet(p) /\ adrift' = adrift
  BY DEF CoreInv, CoreType, TakeProjectLock, In, Quiet, ghostVars
<1>2. /\ next \in ProcessType /\ next.phase = "publish" /\ next.op = process[p].op
      /\ next.key = process[p].key /\ next.parent = process[p].parent
  BY <1>1, PhaseMoves DEF Phases
<1>3. /\ process' = [process EXCEPT ![p] = next] /\ starting' = starting
      /\ core = Nobody /\ core' = p
  BY DEF TakeProjectLock, MovesTo, Moves
<1>. HIDE DEF next
<1>4. \A q \in Processes : process'[q] = IF q = p THEN next ELSE process[q]
  BY <1>3 DEF CoreInv, CoreType
<1>5. CoreType' /\ KindOK(next)
  BY <1>1, <1>2, <1>3, <1>4 DEF CoreInv, CoreType, KindOK, TakeProjectLock, ghostVars
<1>6. CoreLocked'
  BY <1>3, <1>4, ProcessesAssumption DEF CoreInv, CoreLocked
<1>7. ASSUME ~adrift' PROVE StartLocked' /\ RemovalOK'
  <2>1. StartLocked /\ RemovalOK
    BY <1>1, <1>7 DEF CoreInv
  <2>2. \A q \in Processes : /\ Active(process'[q]) => Active(process[q])
                             /\ process'[q].parent = process[q].parent
                             /\ process[q].phase = "wait" => process'[q].phase = "wait"
    BY <1>1, <1>2, <1>4 DEF Active, ActivePhases
  <2>3. StartLocked'
    BY <1>3, <2>1, <2>2 DEF StartLocked, Holder, In
  <2>4. MayRemove(next) => Gone(process', Excused', next.key)
    <3>. SUFFICES ASSUME MayRemove(next) PROVE Gone(process', Excused', next.key)
      OBVIOUS
    <3>1. Gone(process, Excused, next.key)
      BY <1>2, <2>1 DEF RemovalOK, MayRemove
    <3>2. QED
      BY <1>1, <1>2, <1>3, <3>1, GoneStays DEF CoreInv, Quiet
  <2>5. QED
    BY <1>1, <1>2, <1>3, <1>5, <1>7, <2>3, <2>4, QuietKeepsRemoval
<1>8. QED
  BY <1>4, <1>5, <1>6, <1>7 DEF CoreInv

\* A core that begins to serve writes core.json, and is the only one that does.
LEMMA WriteKeepsCore ==
  ASSUME CoreInv, NEW p \in Processes, WriteMetadata(p)
  PROVE  CoreInv'
<1>. DEFINE key == keys + 1
            next == WithKey(process[p], "serving", key)
<1>1. /\ process[p] \in ProcessType /\ KindOK(process[p]) /\ process[p].phase = "publish"
      /\ keys \in Nat /\ key \in Nat /\ key > keys /\ keys' = key /\ metadata' = key
      /\ adrift' = adrift /\ doubted' = doubted /\ stopped' = stopped /\ core = p
      /\ \A q \in Processes : process[q].phase = "serving" => q = p
  BY DEF CoreInv, CoreType, CoreLocked, WriteMetadata, In, ghostVars
<1>2. /\ next \in ProcessType /\ next.phase = "serving" /\ next.op = process[p].op
      /\ next.key = key /\ next.parent = process[p].parent
  <2>1. "serving" \in Phases
    BY DEF Phases
  <2>. HIDE DEF key
  <2>2. QED
    BY <1>1, <2>1, KeyMoves
<1>3. /\ process' = [process EXCEPT ![p] = next] /\ starting' = Unlocked(starting, p)
      /\ core' = core
  BY DEF WriteMetadata, Moves, WithKey
<1>. HIDE DEF next
<1>4. \A q \in Processes : process'[q] = IF q = p THEN next ELSE process[q]
  BY <1>3 DEF CoreInv, CoreType
<1>5. KindOK(next) /\ ~Active(next) /\ ~MayRemove(next)
  <2>1. process[p].op # "cleanup" => ~MayRemove(next)
    BY <1>2 DEF MayRemove
  <2>2. process[p].op # "cleanup"
    BY <1>1 DEF KindOK
  <2>3. QED
    BY <1>1, <1>2, <2>1, <2>2 DEF KindOK, Active, ActivePhases
<1>6. CoreType'
  <2>1. process' \in [Processes -> ProcessType]
    BY <1>2, <1>3 DEF CoreInv, CoreType
  <2>2. ASSUME NEW q \in Processes PROVE process'[q].key <= keys'
    <3>1. process[q].key \in Nat /\ process[q].key <= keys
      BY DEF CoreInv, CoreType, ProcessType
    <3>2. QED
      BY <1>1, <1>2, <1>4, <3>1
  <2>. HIDE DEF key
  <2>3. metadata' \in 0..keys' /\ keys' \in Nat
    BY <1>1
  <2>4. QED
    BY <1>1, <2>1, <2>2, <2>3 DEF CoreInv, CoreType
<1>7. CoreLocked'
  BY <1>1, <1>3, <1>4 DEF CoreInv, CoreLocked
<1>8. ASSUME ~adrift' PROVE StartLocked' /\ RemovalOK'
  <2>1. StartLocked /\ RemovalOK
    BY <1>1, <1>8 DEF CoreInv
  <2>2. Active(process[p])
    BY <1>1 DEF Active, ActivePhases, KindOK
  <2>3. \A q \in Processes : ~Active(process'[q])
    BY <1>4, <1>5, <2>1, <2>2 DEF StartLocked
  <2>4. ASSUME NEW q \in Processes, q # p
        PROVE  /\ MayRemove(process[q]) => Gone(process', Excused', process[q].key)
               /\ process[q].phase # "remove" /\ process[q].phase # "serving"
    <3>1. process[q].phase # "serving" /\ process[q].key <= keys /\ process[q].key \in Nat
      BY <1>1, <2>4 DEF CoreInv, CoreType, ProcessType
    <3>2. process[q].phase # "remove"
      BY <2>1, <2>2, <2>4 DEF StartLocked, Active, ActivePhases, CoreInv, KindOK
    <3>3. next.key # process[q].key
      BY <1>1, <1>2, <3>1
    <3>4. Excused' = Excused
      BY <1>1 DEF Excused
    <3>5. MayRemove(process[q]) => Gone(process', Excused', process[q].key)
      BY <1>1, <1>2, <1>3, <2>1, <3>3, GoneStays DEF RemovalOK, CoreInv
    <3>6. QED
      BY <3>1, <3>2, <3>5
  <2>5. RemovalOK'
    BY <1>1, <1>2, <1>4, <1>5, <2>4 DEF RemovalOK, In
  <2>6. QED
    BY <2>3, <2>5 DEF StartLocked
<1>9. QED
  BY <1>4, <1>5, <1>6, <1>7, <1>8 DEF CoreInv

\* A core that ends gives up core.lock: none serves with its key then.
LEMMA ShutdownKeepsCore ==
  ASSUME CoreInv, NEW p \in Processes, Shutdown(p)
  PROVE  CoreInv'
<1>. DEFINE next == WithOp(process[p], "start", "cleanup")
<1>1. /\ process[p] \in ProcessType /\ KindOK(process[p]) /\ process[p].phase = "serving"
      /\ process[p].key <= keys /\ Quiet(p) /\ adrift' = adrift
      /\ \A q \in Processes : process[q].phase \in {"publish", "serving"} => q = p
  BY DEF CoreInv, CoreType, CoreLocked, Shutdown, In, Quiet, ghostVars
<1>2. /\ next \in ProcessType /\ next.phase = "start" /\ next.op = "cleanup"
      /\ next.key = process[p].key /\ next.parent = process[p].parent
  BY <1>1, OpMoves DEF Phases, Ops
<1>3. /\ process' = [process EXCEPT ![p] = next] /\ starting' = starting /\ core' = Nobody
  BY DEF Shutdown, Moves, WithOp
<1>. HIDE DEF next
<1>4. \A q \in Processes : process'[q] = IF q = p THEN next ELSE process[q]
  BY <1>3 DEF CoreInv, CoreType
<1>5. KindOK(next) /\ ~Active(next)
  BY <1>2 DEF KindOK, Active, ActivePhases
<1>6. CoreType'
  BY <1>1, <1>2, <1>3, <1>4 DEF CoreInv, CoreType, Shutdown, ghostVars
<1>7. CoreLocked'
  BY <1>1, <1>2, <1>4 DEF CoreLocked
<1>8. ASSUME ~adrift' PROVE StartLocked' /\ RemovalOK'
  <2>1. StartLocked
    BY <1>1, <1>8 DEF CoreInv
  <2>2. \A q \in Processes : /\ Active(process'[q]) => Active(process[q]) /\ process'[q] = process[q]
                             /\ process[q].phase = "wait" => process'[q].phase = "wait"
    BY <1>1, <1>4, <1>5
  <2>3. StartLocked'
    BY <1>3, <2>1, <2>2 DEF StartLocked, Holder, In
  <2>4. Gone(process', Excused', next.key)
    BY <1>1, <1>2, <1>4 DEF Gone
  <2>5. QED
    BY <1>1, <1>2, <1>3, <1>5, <1>8, <2>3, <2>4, QuietKeepsRemoval
<1>9. QED
  BY <1>4, <1>5, <1>6, <1>7, <1>8 DEF CoreInv

\* The goroutine of an Ensure goes on under the lock of the Ensure, that waits.
LEMMA SpawnKeepsCore ==
  ASSUME CoreInv, NEW p \in Processes, Spawn(p)
  PROVE  CoreInv'
<1>. DEFINE waits == [process[p] EXCEPT !.phase = "wait"]
            started == IF Op(p) = "ensure" THEN Begun("serve", "look", p)
                                           ELSE Begun("serve", "start", Nobody)
<1>1. /\ process[p] \in ProcessType /\ KindOK(process[p]) /\ process[p].phase = "spawn"
      /\ process[p].key <= keys /\ process[p].op \in {"ensure", "open"}
  BY DEF CoreInv, CoreType, Spawn, In, KindOK
<1>2. PICK s \in Processes :
        /\ In(s, "ended")
        /\ process' = [process EXCEPT ![p].phase = "wait", ![s] = started]
  BY DEF Spawn
<1>3. s # p
  BY <1>1, <1>2 DEF In
<1>4. /\ waits \in ProcessType /\ waits.phase = "wait" /\ waits.op = process[p].op
      /\ waits.key = process[p].key /\ waits.parent = process[p].parent
  BY <1>1, PhaseMoves DEF Phases
<1>5. /\ started \in ProcessType /\ started.op = "serve" /\ started.key = 0
      /\ process[p].op = "ensure" => started.phase = "look" /\ started.parent = p
      /\ process[p].op = "open" => started.phase = "start" /\ started.parent = Nobody
  <2>1. Begun("serve", "look", p) \in ProcessType /\ Begun("serve", "start", Nobody) \in ProcessType
    BY BegunProcess DEF Ops, Phases
  <2>2. QED
    BY <2>1 DEF Begun, NoKey, Op
<1>. HIDE DEF started
<1>6. \A q \in Processes :
        process'[q] = IF q = p THEN waits ELSE IF q = s THEN started ELSE process[q]
  <2>. DEFINE half == [process EXCEPT ![p].phase = "wait"]
  <2>1. half = [process EXCEPT ![p] = waits]
    BY DEF CoreInv, CoreType
  <2>2. process' = [half EXCEPT ![s] = started]
    BY <1>2
  <2>. HIDE DEF half, waits
  <2>3. QED
    BY <1>3, <2>1, <2>2 DEF CoreInv, CoreType
<1>7. process' \in [Processes -> ProcessType]
  <2>1. process' = [q \in Processes |-> process'[q]]
    BY <1>2 DEF CoreInv, CoreType
  <2>. HIDE DEF waits
  <2>2. QED
    BY <1>4, <1>5, <1>6, <2>1 DEF CoreInv, CoreType
<1>. HIDE DEF waits
<1>8. /\ UNCHANGED <<metadata, keys, doubted, stopped, adrift, starting, core>>
  BY DEF Spawn, lockVars, ghostVars
<1>9. CoreType'
  BY <1>1, <1>4, <1>5, <1>6, <1>7, <1>8 DEF CoreInv, CoreType
<1>10. CoreLocked'
  BY <1>1, <1>4, <1>5, <1>6, <1>8 DEF CoreInv, CoreLocked
<1>11. KindOK(waits) /\ KindOK(started) /\ ~Active(waits) /\ ~MayRemove(waits) /\ ~MayRemove(started)
       /\ (Active(started) => process[p].op = "ensure")
  BY <1>1, <1>4, <1>5 DEF KindOK, Active, ActivePhases, MayRemove
<1>12. ASSUME ~adrift' PROVE StartLocked' /\ RemovalOK'
  <2>1. StartLocked /\ RemovalOK
    BY <1>8, <1>12 DEF CoreInv
  <2>2. RemovalOK'
    <3>1. \A q \in Processes : process'[q].phase = "serving" => process'[q] = process[q]
      BY <1>1, <1>4, <1>5, <1>6
    <3>2. ASSUME NEW q \in Processes, MayRemove(process'[q])
          PROVE  Gone(process', Excused', process'[q].key)
      <4>1. process'[q] = process[q] /\ Gone(process, Excused, process[q].key)
        BY <1>6, <1>11, <2>1, <3>2 DEF RemovalOK
      <4>2. QED
        BY <1>8, <3>1, <4>1 DEF Gone, Excused
    <3>3. \A q \in Processes : process'[q].phase \in {"remove", "serving"} => process'[q] = process[q]
      BY <1>1, <1>4, <1>5, <1>6
    <3>4. QED
      BY <1>8, <2>1, <3>2, <3>3 DEF RemovalOK, In, Excused
  <2>3. CASE process[p].op = "open"
    <3>1. \A q \in Processes : /\ Active(process'[q]) => process'[q] = process[q]
                               /\ process[q].phase = "wait" => process'[q].phase = "wait"
      BY <1>1, <1>2, <1>4, <1>6, <1>11, <2>3 DEF In
    <3>2. QED
      BY <1>8, <2>1, <2>2, <3>1 DEF StartLocked, Holder, In
  <2>4. CASE process[p].op = "ensure"
    <3>1. Active(process[p])
      BY <1>1, <2>4 DEF Active, ActivePhases
    <3>2. \A q \in Processes : Active(process'[q]) => q = s
      BY <1>6, <1>11, <2>1, <3>1 DEF StartLocked
    <3>3. starting = p
      <4>1. Holder(p)
        BY <2>1, <3>1 DEF StartLocked
      <4>2. process[p].parent \notin Processes
        BY <1>1, ProcessesAssumption DEF KindOK
      <4>3. QED
        BY <4>1, <4>2 DEF Holder
    <3>4. Holder(s)'
      BY <1>3, <1>4, <1>5, <1>6, <1>8, <2>4, <3>3 DEF Holder, In
    <3>5. QED
      BY <2>2, <3>2, <3>4 DEF StartLocked
  <2>5. QED
    BY <1>1, <2>3, <2>4
<1>13. QED
  BY <1>6, <1>9, <1>10, <1>11, <1>12 DEF CoreInv

\* A process that is killed takes its goroutine with it.
LEMMA DeathKeepsCore ==
  ASSUME CoreInv, NEW p \in Processes, Dies(p)
  PROVE  CoreInv'
<1>. DEFINE gone == {p} \cup {q \in Processes : process[q].parent = p}
            Left(lock) == IF lock \in gone THEN Nobody ELSE lock
<1>1. /\ process' = [q \in Processes |-> IF q \in gone THEN Ended ELSE process[q]]
      /\ starting' = Left(starting) /\ core' = Left(core)
      /\ UNCHANGED <<metadata, keys, doubted, stopped, adrift>>
  BY DEF Dies, ghostVars
<1>2. \A q \in Processes : process'[q] = IF q \in gone THEN Ended ELSE process[q]
  BY <1>1
<1>3. \A q \in Processes : q \in gone <=> q = p \/ process[q].parent = p
  OBVIOUS
<1>4. starting' = (IF starting \in gone THEN Nobody ELSE starting)
      /\ core' = (IF core \in gone THEN Nobody ELSE core)
  BY <1>1
<1>. HIDE DEF gone, Left
<1>5. CoreType'
  BY <1>1, EndedProcess DEF CoreInv, CoreType
<1>6. CoreLocked' /\ \A q \in Processes : KindOK(process'[q])
  BY <1>2, <1>4, EndedProcess DEF CoreInv, CoreLocked, KindOK
<1>7. ASSUME ~adrift' PROVE StartLocked' /\ RemovalOK'
  <2>1. StartLocked /\ RemovalOK
    BY <1>1, <1>7 DEF CoreInv
  <2>2. ~Active(Ended) /\ ~MayRemove(Ended) /\ Ended.phase \notin {"remove", "serving"}
    BY EndedProcess DEF Active, ActivePhases, MayRemove
  <2>3. ASSUME NEW q \in Processes, Active(process'[q]) PROVE Holder(q)'
    <3>1. q \notin gone /\ process'[q] = process[q] /\ Holder(q)
      BY <1>2, <2>1, <2>2, <2>3 DEF StartLocked
    <3>2. CASE starting = q
      BY <1>4, <3>1, <3>2 DEF Holder
    <3>3. CASE process[q].parent \in Processes /\ starting = process[q].parent /\ In(process[q].parent, "wait")
      <4>. DEFINE parent == process[q].parent
      <4>1. parent # p /\ parent \in Processes
        BY <1>3, <3>1, <3>3
      <4>2. process[parent].parent = Nobody
        BY <3>3, <4>1 DEF CoreInv, KindOK, In
      <4>3. parent \notin gone
        BY <1>3, <4>1, <4>2, ProcessesAssumption
      <4>4. QED
        BY <1>2, <1>4, <3>1, <3>3, <4>3 DEF Holder, In
    <3>4. QED
      BY <3>1, <3>2, <3>3 DEF Holder
  <2>4. \A q, r \in Processes : Active(process'[q]) /\ Active(process'[r]) => q = r
    BY <1>2, <2>1, <2>2 DEF StartLocked
  <2>5. RemovalOK'
    <3>1. \A q \in Processes : process'[q].phase \in {"remove", "serving"} => process'[q] = process[q]
      BY <1>2, <2>2
    <3>2. ASSUME NEW q \in Processes, MayRemove(process'[q])
          PROVE  Gone(process', Excused', process'[q].key)
      <4>1. process'[q] = process[q] /\ Gone(process, Excused, process[q].key)
        BY <1>2, <2>1, <2>2, <3>2 DEF RemovalOK
      <4>2. QED
        BY <1>1, <3>1, <4>1 DEF Gone, Excused
    <3>3. QED
      BY <1>1, <2>1, <3>1, <3>2 DEF RemovalOK, In, Excused
  <2>6. QED
    BY <2>3, <2>4, <2>5 DEF StartLocked
<1>8. QED
  BY <1>5, <1>6, <1>7 DEF CoreInv

LEMMA CoreStep == CoreInv /\ [CoreNext]_coreVars => CoreInv'
<1>. SUFFICES ASSUME CoreInv, [CoreNext]_coreVars PROVE CoreInv'
  OBVIOUS
<1>1. CASE UNCHANGED coreVars
  BY <1>1 DEF coreVars, CoreInv, CoreType, CoreLocked, StartLocked, Holder, In, RemovalOK, Excused
<1>2. QED
  BY <1>1, BeginKeepsCore, LaunchKeepsCore, StartupKeepsCore, LookKeepsCore, StopKeepsCore,
     CompareKeepsCore, RemoveKeepsCore, ProjectLockKeepsCore, WriteKeepsCore, ShutdownKeepsCore,
     SpawnKeepsCore, WaitedKeepsCore, GivesUpKeepsCore, DeathKeepsCore DEF CoreNext

\* At most one core serves, and core.json names it unless a check or a stop of it failed,
\* it was told to stop, or a goroutine outlived its Ensure (Serve, Ensure, openProject,
\* removeMetadataIfOwned), for any number of processes that begin, wait and die anywhere.
THEOREM TheCoreIsKnown == CoreSpec => []CoreIsKnown
<1>1. CoreInit => CoreInv
  <2>. SUFFICES ASSUME CoreInit PROVE CoreInv
    OBVIOUS
  <2>. DEFINE never == FALSE
  <2>1. never \in BOOLEAN
    OBVIOUS
  <2>2. adrift = never /\ keys = 0 /\ metadata = 0
    BY DEF CoreInit, NoKey
  <2>. HIDE DEF never
  <2>3. /\ process \in [Processes -> ProcessType]
        /\ \A p \in Processes : process[p] = Ended
    BY EndedProcess DEF CoreInit
  <2>4. KindOK(Ended) /\ ~Active(Ended) /\ ~MayRemove(Ended)
    BY EndedProcess DEF KindOK, Active, ActivePhases, MayRemove
  <2>5. CoreType /\ CoreLocked
    BY <2>1, <2>2, <2>3, EndedProcess DEF CoreType, CoreLocked
  <2>6. StartLocked /\ RemovalOK
    BY <2>3, <2>4, EndedProcess DEF StartLocked, RemovalOK, In
  <2>7. QED
    BY <2>3, <2>4, <2>5, <2>6 DEF CoreInv
<1>2. CoreInv => CoreIsKnown
  BY DEF CoreInv, CoreLocked, RemovalOK, CoreIsKnown, In, Excused
<1>3. QED
  BY <1>1, <1>2, CoreStep, PTL DEF CoreSpec
==============================================================================
