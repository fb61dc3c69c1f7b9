--------------------------- MODULE ExchangeProofs ---------------------------
(***************************************************************************)
(* What one place takes over from another.  For any number of processes,   *)
(* commits, missions and bindings, a commit that is superseded takes its   *)
(* confirmed bindings with it; for any number of syncs of a remote, its    *)
(* cursor is never ahead of the log; and for any agents, capsules,         *)
(* configurations, people and approvals, an import binds what an owner     *)
(* confirmed, and a return is what an owner approved.                      *)
(***************************************************************************)
EXTENDS Provenance, RemoteObserver, Transfer,
        FiniteSetTheorems, SequenceTheorems, TLAPS

(***************************************************************************)
(* The events a command prepares, and what the log reduces to.             *)
(***************************************************************************)
CommitStatus == {"unknown", "observed", "superseded"}
BindingStatus == {"proposed", "confirmed", "rejected", "invalidated"}

CommitEvents == [kind : {"observed", "superseded"}, commit : Commits]
BindingEvents == [kind : {"confirmed", "rejected", "invalidated"}, id : Nat]
Proposals == [kind : {"proposed"}, commit : Commits, mission : Missions]
SCMEvents == {RepositoryEvent} \cup CommitEvents \cup BindingEvents \cup Proposals

BindingType == [commit : Commits, mission : Missions, status : BindingStatus]

ProvenanceType ==
  /\ provenance \in [length : Nat, repository : BOOLEAN, commits : [Commits -> CommitStatus],
                     bindings : Seq(BindingType), approved : SUBSET Nat, current : BOOLEAN]
  /\ preparing \in [Clients -> [at : Nat, events : SUBSET SCMEvents]]

\* Events that supersede a commit name every confirmed binding of it, and confirm none.
TakesBindings(events) ==
  \A o \in Commits : CommitEvent(o, "superseded") \in events =>
    \A i \in DOMAIN provenance.bindings :
      /\ BindingEvent(i, "confirmed") \notin events
      /\ provenance.bindings[i].commit = o /\ provenance.bindings[i].status = "confirmed"
           => BindingEvent(i, "invalidated") \in events

\* What is prepared is of the log as it is, or the log has grown since.
PreparedOK(c) ==
  /\ preparing[c].at <= provenance.length
  /\ IsFiniteSet(preparing[c].events)
  /\ preparing[c].events = {} => preparing[c] = NothingPrepared
  /\ preparing[c].at = provenance.length => TakesBindings(preparing[c].events)

ProvenanceInv ==
  ProvenanceType /\ provenance.length > 0 /\ \A c \in Clients : PreparedOK(c)
-----------------------------------------------------------------------------
LEMMA ImageIsFinite ==
  ASSUME NEW S, IsFiniteSet(S), NEW f, DOMAIN f = S
  PROVE  IsFiniteSet({f[x] : x \in S})
<1>. DEFINE T == {f[x] : x \in S}
            g == [x \in S |-> f[x]]
<1>1. g \in Surjection(S, T)
  BY DEF Surjection
<1>2. QED
  BY <1>1, FS_Surjection

LEMMA SetToSeqIsSequence ==
  ASSUME NEW S, IsFiniteSet(S)
  PROVE  SetToSeq(S) \in [1..Cardinality(S) -> S] /\ SetToSeq(S) \in Seq(S)
<1>1. Cardinality(S) \in Nat /\ ExistsBijection(1..Cardinality(S), S)
  BY FS_CardinalityType
<1>2. \E f \in [1..Cardinality(S) -> S] : IsInjective(f)
  <2>1. PICK f \in [1..Cardinality(S) -> S] :
          \A a, b \in 1..Cardinality(S) : f[a] = f[b] => a = b
    BY <1>1 DEF ExistsBijection, Bijection, Injection, IsInjective
  <2>2. QED
    BY <2>1 DEF IsInjective
<1>3. SetToSeq(S) \in [1..Cardinality(S) -> S]
  BY <1>2 DEF SetToSeq
<1>4. QED
  BY <1>1, <1>3

LEMMA ConcatOfBindings ==
  ASSUME NEW S, NEW s \in Seq(S), NEW t \in Seq(S)
  PROVE  /\ s \o t \in Seq(S) /\ DOMAIN s \subseteq DOMAIN (s \o t)
         /\ \A i \in DOMAIN s : (s \o t)[i] = s[i]
<1>1. /\ DOMAIN s = 1..Len(s) /\ Len(s) \in Nat /\ Len(t) \in Nat
      /\ s \o t \in Seq(S) /\ Len(s \o t) = Len(s) + Len(t)
      /\ \A i \in 1..Len(s) : (s \o t)[i] = s[i]
  BY ConcatProperties, LenProperties
<1>2. DOMAIN (s \o t) = 1..Len(s \o t)
  BY <1>1, LenProperties
<1>3. QED
  BY <1>1, <1>2
-----------------------------------------------------------------------------
(* The reducer. *)
DecidedIn(id, events) ==
  {s \in {"confirmed", "rejected", "invalidated"} : BindingEvent(id, s) \in events}

\* A binding that is decided by the events has one of their decisions, any other stays.
LEMMA DecidedBinding ==
  ASSUME NEW id, NEW b \in BindingType, NEW events
  PROVE  LET new == ApplySCMBindingDecided(id, b, events)
         IN  /\ new \in BindingType /\ new.commit = b.commit
             /\ DecidedIn(id, events) = {} => new.status = b.status
             /\ DecidedIn(id, events) # {} => new.status \in DecidedIn(id, events)
<1>. DEFINE decided == DecidedIn(id, events)
            status == IF decided = {} THEN b.status ELSE CHOOSE s \in decided : TRUE
<1>1. /\ status \in BindingStatus /\ (decided = {} => status = b.status)
      /\ decided # {} => status \in decided
  BY DEF DecidedIn, BindingStatus, BindingType
<1>2. ApplySCMBindingDecided(id, b, events) = [b EXCEPT !.status = status]
  BY DEF ApplySCMBindingDecided, DecidedIn
<1>. HIDE DEF status, decided
<1>3. [b EXCEPT !.status = status] = [commit |-> b.commit, mission |-> b.mission, status |-> status]
  BY DEF BindingType
<1>4. QED
  BY <1>1, <1>2, <1>3 DEF BindingType, decided

LEMMA ProposedBindings ==
  ASSUME NEW events \in SUBSET SCMEvents, IsFiniteSet(events)
  PROVE  SetToSeq(ApplySCMBindingProposed(events)) \in Seq(BindingType)
<1>. DEFINE P == {x \in events : x.kind = "proposed"}
            f == [e \in P |-> [commit |-> e.commit, mission |-> e.mission, status |-> "proposed"]]
            T == ApplySCMBindingProposed(events)
<1>1. IsFiniteSet(P)
  BY FS_Subset
<1>2. T = {f[e] : e \in P} /\ DOMAIN f = P
  BY DEF ApplySCMBindingProposed
<1>. HIDE DEF f, P, T
<1>3. IsFiniteSet(T)
  BY <1>1, <1>2, ImageIsFinite
<1>. USE DEF f, P, T
<1>4. T \subseteq BindingType
  <2>1. ASSUME NEW e \in P
        PROVE  [commit |-> e.commit, mission |-> e.mission, status |-> "proposed"] \in BindingType
    <3>1. e \in Proposals
      BY DEF SCMEvents, RepositoryEvent, CommitEvents, BindingEvents
    <3>2. QED
      BY <3>1 DEF Proposals, BindingType, BindingStatus
  <2>2. QED
    BY <1>2, <2>1
<1>5. SetToSeq(T) \in Seq(T)
  BY <1>3, SetToSeqIsSequence
<1>6. QED
  BY <1>4, <1>5, SeqMonotonic

LEMMA CommitsAfter ==
  ASSUME NEW commits \in [Commits -> CommitStatus], NEW events
  PROVE  LET new == [o \in Commits |-> ApplySCMCommit(o, commits[o], events)]
         IN  /\ new \in [Commits -> CommitStatus]
             /\ \A o \in Commits : commits[o] # "superseded" /\ new[o] = "superseded"
                                     => CommitEvent(o, "superseded") \in events
  BY DEF ApplySCMCommit, CommitStatus

\* What an append does: the log is longer, and every binding stays in its place, with the
\* status the events give it.
LEMMA ReducedProjection ==
  ASSUME ProvenanceType, NEW events \in SUBSET SCMEvents, IsFiniteSet(events), events # {},
         provenance' = Reduced(provenance, events)
  PROVE  /\ provenance' \in [length : Nat, repository : BOOLEAN, commits : [Commits -> CommitStatus],
                             bindings : Seq(BindingType), approved : SUBSET Nat, current : BOOLEAN]
         /\ provenance'.length > provenance.length
         /\ DOMAIN provenance.bindings \subseteq DOMAIN provenance'.bindings
         /\ \A o \in Commits : provenance.commits[o] # "superseded" /\ provenance'.commits[o] = "superseded"
                                 => CommitEvent(o, "superseded") \in events
         /\ \A i \in DOMAIN provenance.bindings :
              provenance'.bindings[i] = ApplySCMBindingDecided(i, provenance.bindings[i], events)
<1>. DEFINE P == [length : Nat, repository : BOOLEAN, commits : [Commits -> CommitStatus],
                  bindings : Seq(BindingType), approved : SUBSET Nat, current : BOOLEAN]
            length == provenance.length + Cardinality(events)
            repository == provenance.repository \/ RepositoryEvent \in events
            commits == [o \in Commits |-> ApplySCMCommit(o, provenance.commits[o], events)]
            decided == [i \in DOMAIN provenance.bindings |->
                          ApplySCMBindingDecided(i, provenance.bindings[i], events)]
            proposed == SetToSeq(ApplySCMBindingProposed(events))
            bindings == decided \o proposed
<1>1. /\ provenance \in P /\ provenance.length \in Nat /\ provenance.repository \in BOOLEAN
      /\ provenance.commits \in [Commits -> CommitStatus] /\ provenance.bindings \in Seq(BindingType)
  BY DEF ProvenanceType
<1>2. length \in Nat /\ length > provenance.length
  BY <1>1, FS_CardinalityType, FS_EmptySet
<1>3. /\ commits \in [Commits -> CommitStatus]
      /\ \A o \in Commits : provenance.commits[o] # "superseded" /\ commits[o] = "superseded"
                              => CommitEvent(o, "superseded") \in events
  BY <1>1, CommitsAfter
<1>4. decided \in Seq(BindingType) /\ proposed \in Seq(BindingType)
  <2>1. DOMAIN provenance.bindings = 1..Len(provenance.bindings) /\ Len(provenance.bindings) \in Nat
    BY <1>1, LenProperties
  <2>2. ASSUME NEW i \in DOMAIN provenance.bindings
        PROVE  decided[i] \in BindingType
    <3>1. provenance.bindings[i] \in BindingType
      BY <1>1, <2>1, ElementOfSeq
    <3>2. ApplySCMBindingDecided(i, provenance.bindings[i], events) \in BindingType
      BY <3>1, DecidedBinding
    <3>3. QED
      BY <3>2
  <2>3. decided \in [1..Len(provenance.bindings) -> BindingType]
    BY <2>1, <2>2
  <2>4. QED
    BY <2>1, <2>3, ProposedBindings
<1>5. repository \in BOOLEAN
  BY <1>1
<1>6. provenance' = [provenance EXCEPT !.length = length, !.repository = repository,
                       !.commits = commits, !.bindings = bindings]
  BY <1>1 DEF Reduced
<1>7. /\ bindings \in Seq(BindingType) /\ DOMAIN decided \subseteq DOMAIN bindings
      /\ \A i \in DOMAIN decided : bindings[i] = decided[i]
  <2>. HIDE DEF decided, proposed
  <2>1. QED
    BY <1>4, ConcatOfBindings
<1>8. /\ DOMAIN provenance.bindings \subseteq DOMAIN bindings
      /\ \A i \in DOMAIN provenance.bindings :
              bindings[i] = ApplySCMBindingDecided(i, provenance.bindings[i], events)
  BY <1>7
<1>. HIDE DEF length, repository, commits, bindings
<1>9. provenance' = [length |-> length, repository |-> repository, commits |-> commits,
                     bindings |-> bindings, approved |-> provenance.approved,
                     current |-> provenance.current]
  BY <1>1, <1>6
<1>10. QED
  BY <1>1, <1>2, <1>3, <1>5, <1>7, <1>8, <1>9
-----------------------------------------------------------------------------
(* The commands. *)
LEMMA ProvenanceInitInv == ProvenanceInit => ProvenanceInv
<1>. SUFFICES ASSUME ProvenanceInit PROVE ProvenanceInv
  OBVIOUS
<1>1. provenance \in [length : Nat, repository : BOOLEAN, commits : [Commits -> CommitStatus],
                      bindings : Seq(BindingType), approved : SUBSET Nat, current : BOOLEAN]
  BY DEF ProvenanceInit, CommitStatus
<1>2. preparing \in [Clients -> [at : Nat, events : SUBSET SCMEvents]]
  BY DEF ProvenanceInit, NothingPrepared
<1>3. ASSUME NEW c \in Clients PROVE PreparedOK(c)
  <2>1. preparing[c] = NothingPrepared /\ provenance.length = 1
    BY DEF ProvenanceInit
  <2>2. IsFiniteSet({})
    BY FS_EmptySet
  <2>3. QED
    BY <2>1, <2>2 DEF PreparedOK, TakesBindings, NothingPrepared
<1>4. QED
  BY <1>1, <1>2, <1>3 DEF ProvenanceInit, ProvenanceInv, ProvenanceType

\* A command prepares events of the log as it is.
LEMMA PreparedPreserves ==
  ASSUME ProvenanceInv, NEW c \in Clients, NEW events \in SUBSET SCMEvents,
         Prepared(c, events), IsFiniteSet(events), events # {}, TakesBindings(events)
  PROVE  ProvenanceInv'
<1>. DEFINE P == [length : Nat, repository : BOOLEAN, commits : [Commits -> CommitStatus],
                  bindings : Seq(BindingType), approved : SUBSET Nat, current : BOOLEAN]
            new == [at |-> provenance.length, events |-> events]
<1>1. /\ preparing' = [preparing EXCEPT ![c] = new] /\ provenance' = provenance
      /\ preparing \in [Clients -> [at : Nat, events : SUBSET SCMEvents]] /\ provenance \in P
  BY DEF Prepared, ProvenanceInv, ProvenanceType
<1>2. new \in [at : Nat, events : SUBSET SCMEvents]
  BY <1>1
<1>3. ASSUME NEW d \in Clients PROVE PreparedOK(d)'
  <2>1. CASE d = c
    <3>1. preparing'[d] = new
      BY <1>1, <2>1
    <3>2. QED
      BY <1>1, <3>1 DEF PreparedOK, TakesBindings
  <2>2. CASE d # c
    <3>1. preparing'[d] = preparing[d]
      BY <1>1, <2>2
    <3>2. QED
      BY <1>1, <3>1 DEF PreparedOK, TakesBindings, ProvenanceInv
  <2>3. QED
    BY <2>1, <2>2
<1>4. QED
  BY <1>1, <1>2, <1>3 DEF ProvenanceInv, ProvenanceType

\* Events that supersede no commit take no binding.
LEMMA OneEvent ==
  ASSUME NEW e \in SCMEvents, e.kind # "superseded"
  PROVE  /\ {e} \in SUBSET SCMEvents /\ IsFiniteSet({e}) /\ {e} # {}
         /\ TakesBindings({e})
<1>1. IsFiniteSet({e})
  BY FS_Singleton
<1>2. \A o \in Commits : CommitEvent(o, "superseded") # e
  BY DEF CommitEvent
<1>3. QED
  BY <1>1, <1>2 DEF TakesBindings

LEMMA VerifyPreserves ==
  ASSUME ProvenanceInv, NEW c \in Clients, NEW role, VerifySCMHistory(c, role)
  PROVE  ProvenanceInv'
<1>. DEFINE lost == {o \in ObservedCommits : ~IsReachable(o)}
            taken == ConfirmedOf(lost)
            superseded == {CommitEvent(o, "superseded") : o \in lost}
            invalidated == {BindingEvent(i, "invalidated") : i \in taken}
            events == superseded \cup invalidated
            n == Len(provenance.bindings)
<1>1. Prepared(c, events) /\ lost # {}
  BY DEF VerifySCMHistory
<1>2. /\ n \in Nat /\ DOMAIN provenance.bindings = 1..n
      /\ lost \subseteq Commits /\ taken \subseteq 1..n
  BY LenProperties DEF ProvenanceInv, ProvenanceType, ConfirmedOf, ObservedCommits
<1>3. IsFiniteSet(lost) /\ IsFiniteSet(taken)
  <2>. HIDE DEF lost, taken, n
  <2>1. IsFiniteSet(1..n)
    BY <1>2, FS_Interval
  <2>2. IsFiniteSet(lost)
    BY <1>2, FS_Subset, CommitsAssumption
  <2>3. QED
    BY <1>2, <2>1, <2>2, FS_Subset
<1>4. IsFiniteSet(superseded)
  <2>. DEFINE f == [o \in lost |-> CommitEvent(o, "superseded")]
  <2>1. superseded = {f[o] : o \in lost} /\ DOMAIN f = lost
    OBVIOUS
  <2>. HIDE DEF f, lost, superseded
  <2>2. QED
    BY <1>3, <2>1, ImageIsFinite
<1>5. IsFiniteSet(invalidated)
  <2>. DEFINE f == [i \in taken |-> BindingEvent(i, "invalidated")]
  <2>1. invalidated = {f[i] : i \in taken} /\ DOMAIN f = taken
    OBVIOUS
  <2>. HIDE DEF f, taken, invalidated
  <2>2. QED
    BY <1>3, <2>1, ImageIsFinite
<1>6. IsFiniteSet(events)
  BY <1>4, <1>5, FS_Union
<1>7. events \in SUBSET SCMEvents
  <2>1. ASSUME NEW o \in lost PROVE CommitEvent(o, "superseded") \in CommitEvents
    BY <1>2 DEF CommitEvents, CommitEvent
  <2>2. ASSUME NEW i \in taken PROVE BindingEvent(i, "invalidated") \in BindingEvents
    <3>1. i \in Nat
      BY <1>2
    <3>2. QED
      BY <3>1 DEF BindingEvents, BindingEvent
  <2>3. QED
    BY <2>1, <2>2 DEF SCMEvents
<1>8. TakesBindings(events)
  <2>. SUFFICES ASSUME NEW o \in Commits, CommitEvent(o, "superseded") \in events,
                       NEW i \in DOMAIN provenance.bindings
                PROVE  /\ BindingEvent(i, "confirmed") \notin events
                       /\ provenance.bindings[i].commit = o
                          /\ provenance.bindings[i].status = "confirmed"
                            => BindingEvent(i, "invalidated") \in events
    BY DEF TakesBindings
  <2>1. o \in lost
    BY DEF CommitEvent, BindingEvent
  <2>2. BindingEvent(i, "confirmed") \notin events
    BY DEF CommitEvent, BindingEvent
  <2>3. QED
    BY <2>1, <2>2 DEF ConfirmedOf
<1>9. events # {}
  BY <1>1
<1>. HIDE DEF events
<1>10. QED
  BY <1>1, <1>6, <1>7, <1>8, <1>9, PreparedPreserves

LEMMA DecisionsPreserve ==
  ASSUME ProvenanceInv, NEW c \in Clients, NEW role, NEW id \in DOMAIN provenance.bindings,
         ConfirmSCMBinding(c, role, id) \/ RejectSCMBinding(c, role, id)
  PROVE  ProvenanceInv'
<1>1. id \in Nat
  BY LenProperties DEF ProvenanceInv, ProvenanceType
<1>2. PICK e \in {BindingEvent(id, "confirmed"), BindingEvent(id, "rejected")} : Prepared(c, {e})
  BY DEF ConfirmSCMBinding, RejectSCMBinding
<1>3. e \in SCMEvents /\ e.kind # "superseded"
  BY <1>1, <1>2 DEF SCMEvents, BindingEvents, BindingEvent
<1>4. QED
  BY <1>2, <1>3, OneEvent, PreparedPreserves

LEMMA AppendPreserves ==
  ASSUME ProvenanceInv, NEW c \in Clients, AppendPreparedEvents(c)
  PROVE  /\ ProvenanceInv'
         /\ preparing[c].events \in SUBSET SCMEvents /\ IsFiniteSet(preparing[c].events)
         /\ preparing[c].events # {}
<1>. DEFINE P == [length : Nat, repository : BOOLEAN, commits : [Commits -> CommitStatus],
                  bindings : Seq(BindingType), approved : SUBSET Nat, current : BOOLEAN]
            events == preparing[c].events
<1>1. /\ events \in SUBSET SCMEvents /\ IsFiniteSet(events) /\ events # {}
      /\ provenance' = Reduced(provenance, events) /\ ProvenanceType
      /\ preparing' = [preparing EXCEPT ![c] = NothingPrepared]
      /\ preparing \in [Clients -> [at : Nat, events : SUBSET SCMEvents]]
  BY DEF AppendPreparedEvents, ProvenanceInv, ProvenanceType, PreparedOK
<1>. HIDE DEF events
<1>2. provenance' \in P /\ provenance'.length > provenance.length
  BY <1>1, ReducedProjection
<1>3. NothingPrepared \in [at : Nat, events : SUBSET SCMEvents]
  BY DEF NothingPrepared
<1>4. provenance.length \in Nat /\ provenance.length > 0 /\ provenance'.length \in Nat
  BY <1>2 DEF ProvenanceInv, ProvenanceType
<1>5. ASSUME NEW d \in Clients PROVE PreparedOK(d)'
  <2>1. CASE d = c
    <3>1. preparing'[d] = NothingPrepared
      BY <1>1, <2>1
    <3>2. IsFiniteSet({})
      BY FS_EmptySet
    <3>3. QED
      BY <1>2, <1>4, <3>1, <3>2 DEF PreparedOK, NothingPrepared
  <2>2. CASE d # c
    <3>1. preparing'[d] = preparing[d] /\ preparing[d].at \in Nat
      BY <1>1, <2>2
    <3>2. QED
      BY <1>2, <1>4, <3>1 DEF PreparedOK, ProvenanceInv
  <2>3. QED
    BY <2>1, <2>2
<1>6. preparing' \in [Clients -> [at : Nat, events : SUBSET SCMEvents]]
  BY <1>1, <1>3
<1>7. QED
  BY <1>1, <1>2, <1>4, <1>5, <1>6 DEF ProvenanceInv, ProvenanceType, events

LEMMA NotAppendedPreserves ==
  ASSUME ProvenanceInv, NEW c \in Clients, NotAppended(c)
  PROVE  ProvenanceInv'
<1>1. /\ preparing' = [preparing EXCEPT ![c] = NothingPrepared] /\ provenance' = provenance
      /\ preparing \in [Clients -> [at : Nat, events : SUBSET SCMEvents]]
  BY DEF NotAppended, ProvenanceInv, ProvenanceType
<1>2. NothingPrepared \in [at : Nat, events : SUBSET SCMEvents]
  BY DEF NothingPrepared
<1>3. ASSUME NEW d \in Clients PROVE PreparedOK(d)'
  <2>1. CASE d = c
    <3>1. preparing'[d] = NothingPrepared
      BY <1>1, <2>1
    <3>2. IsFiniteSet({})
      BY FS_EmptySet
    <3>3. provenance.length \in Nat /\ provenance.length > 0
      BY DEF ProvenanceInv, ProvenanceType
    <3>4. preparing'[d].at = 0 /\ preparing'[d].events = {} /\ provenance'.length = provenance.length
      BY <1>1, <3>1 DEF NothingPrepared
    <3>5. QED
      BY <3>1, <3>2, <3>3, <3>4 DEF PreparedOK
  <2>2. CASE d # c
    <3>1. preparing'[d] = preparing[d]
      BY <1>1, <2>2
    <3>2. QED
      BY <1>1, <3>1 DEF PreparedOK, TakesBindings, ProvenanceInv
  <2>3. QED
    BY <2>1, <2>2
<1>4. preparing' \in [Clients -> [at : Nat, events : SUBSET SCMEvents]]
  BY <1>1, <1>2
<1>5. QED
  BY <1>1, <1>3, <1>4 DEF ProvenanceInv, ProvenanceType

LEMMA GovernancePreserves ==
  ASSUME ProvenanceInv, GovernanceMoves
  PROVE  ProvenanceInv' /\ provenance'.commits = provenance.commits
<1>. DEFINE P == [length : Nat, repository : BOOLEAN, commits : [Commits -> CommitStatus],
                  bindings : Seq(BindingType), approved : SUBSET Nat, current : BOOLEAN]
<1>1. /\ provenance \in P /\ preparing' = preparing
      /\ preparing \in [Clients -> [at : Nat, events : SUBSET SCMEvents]]
  BY DEF GovernanceMoves, ProvenanceInv, ProvenanceType
<1>2. /\ provenance' \in P /\ provenance'.length = provenance.length + 1
      /\ provenance'.commits = provenance.commits
  <2>1. CASE \E id \in DOMAIN provenance.bindings \ provenance.approved :
               provenance' = [provenance EXCEPT !.length = @ + 1, !.approved = @ \cup {id}]
    <3>1. PICK id \in DOMAIN provenance.bindings :
            provenance' = [provenance EXCEPT !.length = @ + 1, !.approved = @ \cup {id}]
      BY <2>1
    <3>2. id \in Nat
      BY <1>1, LenProperties
    <3>3. provenance' = [length |-> provenance.length + 1, repository |-> provenance.repository,
                         commits |-> provenance.commits, bindings |-> provenance.bindings,
                         approved |-> provenance.approved \cup {id}, current |-> provenance.current]
      BY <1>1, <3>1
    <3>4. QED
      BY <1>1, <3>2, <3>3
  <2>2. CASE provenance' = [provenance EXCEPT !.length = @ + 1, !.current = FALSE]
    <3>1. provenance' = [length |-> provenance.length + 1, repository |-> provenance.repository,
                         commits |-> provenance.commits, bindings |-> provenance.bindings,
                         approved |-> provenance.approved, current |-> FALSE]
      BY <1>1, <2>2
    <3>. DEFINE stale == FALSE
    <3>2. stale \in BOOLEAN
      OBVIOUS
    <3>3. provenance' = [length |-> provenance.length + 1, repository |-> provenance.repository,
                         commits |-> provenance.commits, bindings |-> provenance.bindings,
                         approved |-> provenance.approved, current |-> stale]
      BY <3>1
    <3>. HIDE DEF stale
    <3>4. QED
      BY <1>1, <3>2, <3>3
  <2>3. QED
    BY <2>1, <2>2 DEF GovernanceMoves
<1>3. ASSUME NEW d \in Clients PROVE PreparedOK(d)'
  <2>1. preparing[d].at \in Nat /\ provenance.length \in Nat
    BY <1>1
  <2>2. QED
    BY <1>1, <1>2, <2>1 DEF PreparedOK, ProvenanceInv
<1>4. provenance'.length > 0
  BY <1>1, <1>2
<1>5. QED
  BY <1>1, <1>2, <1>3, <1>4 DEF ProvenanceInv, ProvenanceType

LEMMA RepositoryPreserves ==
  ASSUME ProvenanceInv, provenance' = provenance, preparing' = preparing
  PROVE  ProvenanceInv'
BY DEF ProvenanceInv, ProvenanceType, PreparedOK, TakesBindings

LEMMA ProvenanceStep ==
  ASSUME ProvenanceInv, [ProvenanceNext]_provenanceVars
  PROVE  ProvenanceInv'
<1>1. ASSUME NEW c \in Clients, NEW role \in {"owner", "lead", "reviewer", "agent"}, RegisterSCM(c, role)
      PROVE  ProvenanceInv'
  <2>1. /\ RepositoryEvent \in SCMEvents /\ RepositoryEvent.kind # "superseded"
        /\ Prepared(c, {RepositoryEvent})
    BY <1>1 DEF SCMEvents, RepositoryEvent, RegisterSCM
  <2>2. QED
    BY <2>1, OneEvent, PreparedPreserves
<1>2. ASSUME NEW c \in Clients, NEW role \in {"owner", "lead", "reviewer", "agent"},
             NEW id \in DOMAIN provenance.bindings,
             ConfirmSCMBinding(c, role, id) \/ RejectSCMBinding(c, role, id)
      PROVE  ProvenanceInv'
  BY <1>2, DecisionsPreserve
<1>3. ASSUME NEW c \in Clients, NEW o \in Commits, ObserveSCMCommit(c, o) PROVE ProvenanceInv'
  <2>1. /\ CommitEvent(o, "observed") \in SCMEvents /\ CommitEvent(o, "observed").kind # "superseded"
        /\ Prepared(c, {CommitEvent(o, "observed")})
    BY <1>3 DEF SCMEvents, CommitEvents, CommitEvent, ObserveSCMCommit
  <2>2. QED
    BY <2>1, OneEvent, PreparedPreserves
<1>4. ASSUME NEW c \in Clients, NEW o \in Commits, NEW m \in Missions, ProposeSCMBinding(c, o, m)
      PROVE  ProvenanceInv'
  <2>1. Proposal(o, m) \in SCMEvents /\ Proposal(o, m).kind # "superseded" /\ Prepared(c, {Proposal(o, m)})
    BY <1>4 DEF SCMEvents, Proposals, Proposal, ProposeSCMBinding
  <2>2. QED
    BY <2>1, OneEvent, PreparedPreserves
<1>5. CASE RefsMove \/ (\E o \in Commits : Prune(o)) \/ UNCHANGED provenanceVars
  <2>1. provenance' = provenance /\ preparing' = preparing
    BY <1>5 DEF RefsMove, Prune, provenanceVars
  <2>2. QED
    BY <2>1, RepositoryPreserves
<1>6. QED
  BY <1>1, <1>2, <1>3, <1>4, <1>5, VerifyPreserves, AppendPreserves, NotAppendedPreserves,
     GovernancePreserves DEF ProvenanceNext

\* What a process has prepared names, of every commit it supersedes, every confirmed
\* binding, unless the log has grown since it was read.
THEOREM PreparedIsOfItsLog == ProvenanceSpec => []ProvenanceInv
<1>1. ProvenanceInv /\ [ProvenanceNext]_provenanceVars => ProvenanceInv'
  BY ProvenanceStep
<1>2. QED
  BY <1>1, ProvenanceInitInv, PTL DEF ProvenanceSpec

LEMMA AppendTakesBindings ==
  ASSUME ProvenanceInv, NEW c \in Clients, AppendPreparedEvents(c),
         NEW i \in DOMAIN provenance.bindings, NEW o, o = provenance.bindings[i].commit,
         provenance.commits[o] # "superseded", provenance'.commits[o] = "superseded"
  PROVE  provenance'.bindings[i].status # "confirmed"
<1>. DEFINE events == preparing[c].events
            binding == provenance.bindings[i]
<1>1. /\ events \in SUBSET SCMEvents /\ IsFiniteSet(events) /\ events # {} /\ ProvenanceType
      /\ provenance' = Reduced(provenance, events)
  BY AppendPreserves DEF AppendPreparedEvents, ProvenanceInv
<1>2. TakesBindings(events)
  BY DEF AppendPreparedEvents, Unchanged, ProvenanceInv, PreparedOK
<1>3. binding \in BindingType /\ binding.commit = o /\ o \in Commits
  <2>1. binding \in BindingType
    BY <1>1, ElementOfSeq, LenProperties DEF ProvenanceType
  <2>2. QED
    BY <2>1 DEF BindingType
<1>. HIDE DEF events, binding
<1>4. /\ CommitEvent(o, "superseded") \in events
      /\ provenance'.bindings[i] = ApplySCMBindingDecided(i, binding, events)
  BY <1>1, <1>3, ReducedProjection DEF binding
<1>5. /\ BindingEvent(i, "confirmed") \notin events
      /\ binding.status = "confirmed" => BindingEvent(i, "invalidated") \in events
  BY <1>2, <1>3, <1>4 DEF TakesBindings, binding
<1>6. /\ "confirmed" \notin DecidedIn(i, events)
      /\ binding.status = "confirmed" => DecidedIn(i, events) # {}
  BY <1>5 DEF DecidedIn
<1>7. /\ DecidedIn(i, events) = {} => provenance'.bindings[i].status = binding.status
      /\ DecidedIn(i, events) # {} => provenance'.bindings[i].status \in DecidedIn(i, events)
  BY <1>3, <1>4, DecidedBinding
<1>8. QED
  BY <1>6, <1>7

\* No binding stays confirmed when its commit is superseded (VerifySCMHistory), although
\* other processes may confirm bindings between its reading of the log and its append.
THEOREM NoBindingOutlivesItsCommit == ProvenanceSpec => SupersededTakesBindings
<1>. DEFINE Taken == \A i \in DOMAIN provenance.bindings :
       LET o == provenance.bindings[i].commit
       IN provenance.commits[o] # "superseded" /\ provenance'.commits[o] = "superseded"
            => provenance'.bindings[i].status # "confirmed"
<1>1. ProvenanceInv /\ [ProvenanceNext]_provenanceVars => [Taken]_provenance
  <2>. SUFFICES ASSUME ProvenanceInv, [ProvenanceNext]_provenanceVars, provenance' # provenance
                PROVE  Taken
    OBVIOUS
  <2>1. (\E c \in Clients : AppendPreparedEvents(c)) \/ GovernanceMoves
    BY DEF ProvenanceNext, provenanceVars, RegisterSCM, VerifySCMHistory, ConfirmSCMBinding,
           RejectSCMBinding, ObserveSCMCommit, ProposeSCMBinding, NotAppended, RefsMove, Prune, Prepared
  <2>2. QED
    BY <2>1, AppendTakesBindings, GovernancePreserves
<1>2. QED
  BY <1>1, PreparedIsOfItsLog, PTL DEF ProvenanceSpec, SupersededTakesBindings
-----------------------------------------------------------------------------
(***************************************************************************)
(* The remote.  What the log reduces to only grows: it knows more commits, *)
(* later changes of the pull request, more reviews, and a check that has   *)
(* completed stays so.                                                     *)
(***************************************************************************)
Oid == Heads \cup {Absent}
CheckStatus == {"none", "queued", "completed"}
RefFacts == [kind : {"ref"}, oid : Oid, previous : Oid]

GithubType ==
  /\ github \in [ref : Oid, moves : Nat, updated : 0..MaxPull, pushed : 0..MaxPull, reviews : Nat,
                 checks : [Pushes -> CheckStatus]]
  /\ github.pushed <= github.updated
  /\ github.updated # 0 => github.pushed \in Pushes

TagsType == [ref : Oid, list : Int, detail : Int, commits : Nat, reviews : Nat,
             checks : [Pushes -> CheckStatus]]
CursorType == [oid : Oid, active : 0..MaxPull, tags : TagsType]

ObservedType ==
  [length : Nat, remote : BOOLEAN, refs : Seq(RefFacts),
   pull : [updated : Nat, commits : SUBSET Nat], reviews : Nat, checks : [Pushes -> CheckStatus]]

KnownOids(o) == {Absent} \cup {o.refs[i].oid : i \in DOMAIN o.refs}

\* Whatever the cursor spares GitHub from repeating is in o.
Follows(o, cursor) ==
  /\ {cursor.oid, cursor.tags.ref} \subseteq KnownOids(o)
  /\ cursor.tags.list <= o.pull.updated
  /\ cursor.tags.reviews <= o.reviews
  /\ cursor.tags.commits \in o.pull.commits \cup {0}
  /\ \A k \in Pushes : cursor.tags.checks[k] \in {"none", "queued", o.checks[k]}

Advances(o, n) ==
  /\ KnownOids(o) \subseteq KnownOids(n)
  /\ o.pull.updated <= n.pull.updated
  /\ o.pull.commits \subseteq n.pull.commits
  /\ o.reviews <= n.reviews
  /\ \A k \in Pushes : o.checks[k] = "completed" => n.checks[k] = "completed"

\* The commits of the pull request in the log are its first ones.
CommitsOK(o) == \E m \in 0..github.pushed : o.pull.commits = 1..m

\* Facts that may be appended to o, and the cursor that may then be saved.
Carries(o, facts, cursor) ==
  LET n == WithFacts(o, facts)
  IN  n \in ObservedType /\ n.length > o.length /\ Advances(o, n) /\ CommitsOK(n) /\ Follows(n, cursor)

SyncOK(p) ==
  /\ syncing[p].phase = "appended" =>
       syncing[p].cursor \in CursorType /\ Follows(observed, syncing[p].cursor)
  /\ syncing[p].phase = "prepared" =>
       /\ syncing[p].cursor \in CursorType
       /\ syncing[p].at \in Nat /\ syncing[p].at <= observed.length
       /\ syncing[p].at = observed.length => Carries(observed, syncing[p].facts, syncing[p].cursor)

RemoteInv ==
  /\ GithubType
  /\ observed \in ObservedType /\ CommitsOK(observed)
  /\ saved \in [config : BOOLEAN, cursor : CursorType] /\ Follows(observed, saved.cursor)
  /\ syncing = [p \in Syncers |-> syncing[p]]
  /\ \A p \in Syncers : SyncOK(p)
-----------------------------------------------------------------------------
LEMMA StillFollows ==
  ASSUME NEW o \in ObservedType, NEW n \in ObservedType, NEW cursor \in CursorType,
         Follows(o, cursor), Advances(o, n)
  PROVE  Follows(n, cursor)
<1>1. /\ o.pull.updated \in Nat /\ n.pull.updated \in Nat /\ o.reviews \in Nat /\ n.reviews \in Nat
      /\ cursor.tags.list \in Int /\ cursor.tags.reviews \in Nat
      /\ \A k \in Pushes : o.checks[k] \in CheckStatus
  BY DEF ObservedType, CursorType, TagsType
<1>2. \A k \in Pushes : cursor.tags.checks[k] \in {"none", "queued", n.checks[k]}
  BY <1>1 DEF Follows, Advances, CheckStatus
<1>3. cursor.tags.list <= n.pull.updated /\ cursor.tags.reviews <= n.reviews
  BY <1>1 DEF Follows, Advances
<1>4. QED
  BY <1>2, <1>3 DEF Follows, Advances

LEMMA EmptyCursor ==
  ASSUME NEW o \in ObservedType
  PROVE  NoCursor \in CursorType /\ Follows(o, NoCursor)
<1>1. NoCursor \in CursorType
  BY MaxPullAssumption DEF NoCursor, CursorType, TagsType, Oid, CheckStatus
<1>2. o.pull.updated \in Nat /\ o.reviews \in Nat
  BY DEF ObservedType
<1>3. QED
  BY <1>1, <1>2 DEF Follows, NoCursor, KnownOids

\* The log changes and the processes with it: a cursor that followed the log still does,
\* and what is prepared for the log as it was is refused.
LEMMA OthersKeepUp ==
  ASSUME NEW q \in Syncers, SyncOK(q), observed \in ObservedType, observed' \in ObservedType,
         Advances(observed, observed'), observed'.length > observed.length,
         syncing'[q] = syncing[q]
  PROVE  SyncOK(q)'
<1>1. observed.length \in Nat /\ observed'.length \in Nat
  BY DEF ObservedType
<1>2. ASSUME syncing[q].phase = "appended"
      PROVE  Follows(observed', syncing[q].cursor)
  BY <1>2, StillFollows DEF SyncOK
<1>3. syncing'[q].phase = "appended" =>
        syncing'[q].cursor \in CursorType /\ Follows(observed, syncing[q].cursor)'
  <2>1. Follows(observed', syncing[q].cursor) => Follows(observed, syncing[q].cursor)'
    BY DEF Follows, KnownOids
  <2>2. QED
    BY <1>2, <2>1 DEF SyncOK
<1>4. syncing'[q].phase = "prepared" =>
        /\ syncing'[q].cursor \in CursorType
        /\ syncing'[q].at \in Nat /\ syncing'[q].at < observed'.length
  BY <1>1 DEF SyncOK
<1>5. QED
  <2>1. \A x \in Nat : x < observed'.length => x <= observed'.length /\ x # observed'.length
    BY <1>1
  <2>2. syncing'[q].phase = "prepared" =>
          syncing'[q].at <= observed'.length /\ syncing'[q].at # observed'.length
    BY <1>4, <2>1
  <2>3. QED
    BY <1>3, <1>4, <2>2, Zenon DEF SyncOK

\* The log does not change, and GitHub may.
LEMMA OthersWait ==
  ASSUME NEW q \in Syncers, SyncOK(q), observed' = observed, github'.pushed \in Nat,
         github.pushed \in Nat, github'.pushed >= github.pushed, syncing'[q] = syncing[q]
  PROVE  SyncOK(q)'
<1>1. ASSUME NEW o, CommitsOK(o) PROVE \E m \in 0..github'.pushed : o.pull.commits = 1..m
  BY <1>1 DEF CommitsOK
<1>2. ASSUME syncing[q].phase = "prepared", syncing[q].at = observed.length
      PROVE  Carries(observed, syncing[q].facts, syncing[q].cursor)'
  <2>. DEFINE n == WithFacts(observed, syncing[q].facts)
  <2>1. /\ n \in ObservedType /\ n.length > observed.length /\ Advances(observed, n) /\ CommitsOK(n)
        /\ Follows(n, syncing[q].cursor)
    BY <1>2 DEF SyncOK, Carries
  <2>2. n' = n
    BY DEF WithFacts, OfKind
  <2>. HIDE DEF n
  <2>3. CommitsOK(n)'
    BY <1>1, <2>1, <2>2 DEF CommitsOK
  <2>4. n' \in ObservedType /\ n'.length > observed'.length /\ Advances(observed, n)'
        /\ Follows(n, syncing[q].cursor)'
    <3>1. Advances(observed, n)'
      BY <2>1, <2>2 DEF Advances, KnownOids
    <3>2. Follows(n, syncing[q].cursor)'
      <4>1. KnownOids(n)' = KnownOids(n)
        BY <2>2 DEF KnownOids
      <4>2. syncing'[q].cursor = syncing[q].cursor
        OBVIOUS
      <4>. HIDE DEF KnownOids
      <4>3. QED
        BY <2>1, <2>2, <4>1, <4>2, Zenon DEF Follows
    <3>3. QED
      BY <2>1, <2>2, <3>1, <3>2, Zenon
  <2>5. QED
    BY <2>3, <2>4 DEF Carries, n
<1>3. syncing[q].phase = "appended" => Follows(observed, syncing[q].cursor)'
  <2>1. syncing[q].phase = "appended" => Follows(observed, syncing[q].cursor)
    BY DEF SyncOK
  <2>2. Follows(observed', syncing'[q].cursor) => Follows(observed, syncing[q].cursor)'
    BY DEF Follows, KnownOids
  <2>3. QED
    BY <2>1, <2>2
<1>4. QED
  BY <1>2, <1>3 DEF SyncOK
-----------------------------------------------------------------------------
(* GitHub, and the projection after facts are appended. *)
LEMMA GithubMoves ==
  ASSUME GithubType, RefChanges \/ PullChanges \/ \E k \in Pushes : CheckCompletes(k)
  PROVE  /\ GithubType' /\ github'.pushed >= github.pushed
         /\ UNCHANGED <<observed, saved, syncing>>
<1>. DEFINE G == [ref : Oid, moves : Nat, updated : 0..MaxPull, pushed : 0..MaxPull, reviews : Nat,
                  checks : [Pushes -> CheckStatus]]
<1>1. /\ github \in G /\ github.pushed <= github.updated /\ MaxPull \in Nat
      /\ github.updated # 0 => github.pushed \in Pushes
  BY MaxPullAssumption DEF GithubType
<1>2. CASE RefChanges
  <2>1. PICK h \in Oid : github' = [github EXCEPT !.ref = h, !.moves = @ + 1]
    BY <1>2 DEF RefChanges, Oid
  <2>2. github' = [ref |-> h, moves |-> github.moves + 1, updated |-> github.updated,
                   pushed |-> github.pushed, reviews |-> github.reviews, checks |-> github.checks]
    BY <1>1, <2>1
  <2>3. github' \in G
    BY <1>1, <2>2
  <2>4. UNCHANGED <<observed, saved, syncing>>
    BY <1>2 DEF RefChanges
  <2>5. /\ github'.pushed = github.pushed /\ github'.updated = github.updated
        /\ github'.pushed >= github.pushed
    BY <1>1, <2>2
  <2>6. GithubType'
    BY <1>1, <2>3, <2>5 DEF GithubType
  <2>7. QED
    BY <2>4, <2>5, <2>6
<1>3. CASE PullChanges
  <2>1. github.updated < MaxPull
    BY <1>3 DEF PullChanges
  <2>2. CASE github' = [Pushed(github) EXCEPT !.updated = @ + 1]
    <3>. DEFINE checks == [github.checks EXCEPT ![github.pushed + 1] = "queued"]
    <3>1. Pushed(github) = [ref |-> github.ref, moves |-> github.moves, updated |-> github.updated,
                            pushed |-> github.pushed + 1, reviews |-> github.reviews, checks |-> checks]
      <4>1. Pushed(github) = [github EXCEPT !.pushed = github.pushed + 1, !.checks = checks]
        BY <1>1 DEF Pushed
      <4>. HIDE DEF checks
      <4>2. QED
        BY <1>1, <4>1
    <3>2. checks \in [Pushes -> CheckStatus]
      BY <1>1 DEF CheckStatus
    <3>. HIDE DEF checks
    <3>3. github' = [ref |-> github.ref, moves |-> github.moves, updated |-> github.updated + 1,
                     pushed |-> github.pushed + 1, reviews |-> github.reviews, checks |-> checks]
      BY <1>1, <2>2, <3>1
    <3>4. github.updated + 1 \in 0..MaxPull /\ github.pushed + 1 \in 0..MaxPull /\ github.pushed + 1 \in Pushes
      BY <1>1, <2>1 DEF Pushes
    <3>5. QED
      BY <1>1, <1>3, <3>2, <3>3, <3>4 DEF GithubType, PullChanges
  <2>3. CASE github.updated # 0 /\ github' = [github EXCEPT !.updated = @ + 1]
    BY <1>1, <1>3, <2>1, <2>3 DEF GithubType, PullChanges
  <2>4. CASE github.updated # 0 /\ github' = [github EXCEPT !.updated = @ + 1, !.reviews = @ + 1]
    <3>1. github' = [ref |-> github.ref, moves |-> github.moves, updated |-> github.updated + 1,
                     pushed |-> github.pushed, reviews |-> github.reviews + 1, checks |-> github.checks]
      BY <1>1, <2>4
    <3>2. QED
      BY <1>1, <1>3, <2>1, <2>4, <3>1 DEF GithubType, PullChanges
  <2>5. QED
    BY <1>3, <2>2, <2>3, <2>4 DEF PullChanges
<1>4. ASSUME NEW k \in Pushes, CheckCompletes(k)
      PROVE  GithubType' /\ github'.pushed >= github.pushed /\ UNCHANGED <<observed, saved, syncing>>
  <2>. DEFINE checks == [github.checks EXCEPT ![k] = "completed"]
  <2>1. checks \in [Pushes -> CheckStatus]
    BY <1>1 DEF CheckStatus
  <2>2. github' = [github EXCEPT !.checks = checks]
    BY <1>1, <1>4 DEF CheckCompletes
  <2>. HIDE DEF checks
  <2>3. QED
    BY <1>1, <1>4, <2>1, <2>2 DEF GithubType, CheckCompletes
<1>5. QED
  BY <1>2, <1>3, <1>4

\* What one sync may append.
TheRef(cursor) == RefFact(github.ref, cursor.oid)
ThePull(cursor) == PullFact(github.updated, CollectCommits(cursor))
Reviews == {ReviewFact(n) : n \in 1..github.reviews}
Checked(cursor) ==
  IF ListModified(cursor) THEN {github.pushed} ELSE IF cursor.active = 0 THEN {} ELSE {cursor.active}
Checks(cursor) == {CheckFact(k, github.checks[k]) : k \in Checked(cursor)}

Asked(cursor) == ObserveRef(cursor) \cup ObservePull(cursor)
FactsOf(cursor) == RemoteObservationEvents(Asked(cursor))

LEMMA CheckedPushes ==
  ASSUME GithubType, NEW cursor \in CursorType
  PROVE  Checked(cursor) \subseteq Pushes /\ IsFiniteSet(Checked(cursor))
<1>1. Checked(cursor) \subseteq Pushes
  <2>1. cursor.active \in 0..MaxPull /\ MaxPull \in Nat
    BY MaxPullAssumption DEF CursorType
  <2>2. ListModified(cursor) => github.pushed \in Pushes
    BY DEF ListModified, GithubType
  <2>3. cursor.active # 0 => cursor.active \in Pushes
    BY <2>1 DEF Pushes
  <2>4. QED
    BY <2>2, <2>3 DEF Checked
<1>2. IsFiniteSet(Checked(cursor))
  BY FS_EmptySet, FS_Singleton DEF Checked
<1>3. QED
  BY <1>1, <1>2

LEMMA AskedFacts ==
  ASSUME NEW cursor
  PROVE  Asked(cursor) \subseteq {TheRef(cursor), ThePull(cursor)} \cup Reviews \cup Checks(cursor)
<1>1. ObserveRef(cursor) \subseteq {TheRef(cursor)}
  BY DEF ObserveRef, TheRef, RefFact
<1>2. ObservePull(cursor) \subseteq {ThePull(cursor)} \cup Reviews \cup Checks(cursor)
  BY DEF ObservePull, CollectPull, ThePull, CollectReviews, Reviews, ActiveChecks, CollectChecks,
         Checks, Checked
<1>3. QED
  BY <1>1, <1>2 DEF Asked

LEMMA AskedIsFinite ==
  ASSUME GithubType, NEW cursor \in CursorType
  PROVE  IsFiniteSet(FactsOf(cursor))
<1>. DEFINE all == {TheRef(cursor), ThePull(cursor)} \cup Reviews \cup Checks(cursor)
<1>1. IsFiniteSet(Reviews)
  <2>. DEFINE f == [n \in 1..github.reviews |-> ReviewFact(n)]
  <2>1. Reviews = {f[n] : n \in 1..github.reviews} /\ DOMAIN f = 1..github.reviews
    BY DEF Reviews
  <2>2. IsFiniteSet(1..github.reviews)
    BY FS_Interval DEF GithubType
  <2>. HIDE DEF f
  <2>3. QED
    BY <2>1, <2>2, ImageIsFinite
<1>2. IsFiniteSet(Checks(cursor))
  <2>. DEFINE f == [k \in Checked(cursor) |-> CheckFact(k, github.checks[k])]
  <2>1. Checks(cursor) = {f[k] : k \in Checked(cursor)} /\ DOMAIN f = Checked(cursor)
    BY DEF Checks
  <2>. HIDE DEF f
  <2>2. QED
    BY <2>1, CheckedPushes, ImageIsFinite
<1>3. IsFiniteSet({TheRef(cursor), ThePull(cursor)})
  <2>1. IsFiniteSet({TheRef(cursor)}) /\ IsFiniteSet({ThePull(cursor)})
    BY FS_Singleton
  <2>2. {TheRef(cursor), ThePull(cursor)} = {TheRef(cursor)} \cup {ThePull(cursor)}
    OBVIOUS
  <2>3. QED
    BY <2>1, <2>2, FS_Union
<1>4. IsFiniteSet(all)
  <2>1. IsFiniteSet({TheRef(cursor), ThePull(cursor)} \cup Reviews)
    BY <1>1, <1>3, FS_Union
  <2>2. QED
    BY <1>2, <2>1, FS_Union
<1>5. FactsOf(cursor) \subseteq all
  BY AskedFacts DEF FactsOf, RemoteObservationEvents
<1>. HIDE DEF all
<1>6. QED
  BY <1>4, <1>5, FS_Subset

\* The facts by their kind.
LEMMA FactsByKind ==
  ASSUME GithubType, NEW cursor \in CursorType
  PROVE  /\ OfKind(FactsOf(cursor), "ref") \subseteq {TheRef(cursor)}
         /\ OfKind(FactsOf(cursor), "pull") \subseteq {ThePull(cursor)}
         /\ OfKind(FactsOf(cursor), "review") \subseteq Reviews
         /\ OfKind(FactsOf(cursor), "check") \subseteq Checks(cursor)
         /\ TheRef(cursor).kind = "ref" /\ ThePull(cursor).kind = "pull"
         /\ \A f \in Reviews : f.kind = "review"
         /\ \A f \in Checks(cursor) : f.kind = "check"
<1>1. /\ TheRef(cursor).kind = "ref" /\ ThePull(cursor).kind = "pull"
      /\ \A f \in Reviews : f.kind = "review" 
      /\ \A f \in Checks(cursor) : f.kind = "check"
  BY DEF TheRef, RefFact, ThePull, PullFact, Reviews, ReviewFact, Checks, CheckFact
<1>2. FactsOf(cursor) \subseteq {TheRef(cursor), ThePull(cursor)} \cup Reviews \cup Checks(cursor)
  BY AskedFacts DEF FactsOf, RemoteObservationEvents
<1>3. QED
  BY <1>1, <1>2 DEF OfKind

LEMMA AppendOfOne ==
  ASSUME NEW S, NEW s \in Seq(S), NEW x \in S, NEW T \in SUBSET {x}
  PROVE  /\ s \o SetToSeq(T) \in Seq(S)
         /\ \A i \in DOMAIN s : i \in DOMAIN (s \o SetToSeq(T)) /\ (s \o SetToSeq(T))[i] = s[i]
         /\ T # {} => \E i \in DOMAIN (s \o SetToSeq(T)) : (s \o SetToSeq(T))[i] = x
<1>. DEFINE t == SetToSeq(T)
<1>1. T = {} \/ T = {x}
  OBVIOUS
<1>2. IsFiniteSet(T)
  <2>1. CASE T = {}
    BY <2>1, FS_EmptySet
  <2>2. CASE T = {x}
    BY <2>2, FS_Singleton
  <2>3. QED
    BY <1>1, <2>1, <2>2
<1>3. t \in [1..Cardinality(T) -> T] /\ t \in Seq(T)
  <2>1. SetToSeq(T) \in [1..Cardinality(T) -> T] /\ SetToSeq(T) \in Seq(T)
    BY <1>2, SetToSeqIsSequence
  <2>2. QED
    BY <2>1
<1>4. t \in Seq(S)
  BY <1>3, SeqMonotonic
<1>5. T # {} => t[1] = x /\ Len(t) = 1
  <2>. SUFFICES ASSUME T # {} PROVE t[1] = x /\ Len(t) = 1
    OBVIOUS
  <2>1. Cardinality(T) = 1
    BY <1>1, FS_Singleton
  <2>2. t \in [1..1 -> {x}]
    BY <1>1, <1>3, <2>1
  <2>3. Len(t) = 1
    <3>. HIDE DEF t
    <3>1. DOMAIN t = 1..1
      BY <2>2
    <3>2. DOMAIN t = 1..Len(t) /\ Len(t) \in Nat
      BY <1>3, LenProperties
    <3>3. 1 \in 1..Len(t) /\ (Len(t) > 1 => 2 \in 1..Len(t))
      BY <3>1, <3>2
    <3>4. QED
      BY <3>1, <3>2, <3>3
  <2>4. t[1] \in {x}
    BY <2>2
  <2>5. QED
    BY <2>3, <2>4
<1>. HIDE DEF t
<1>6. /\ s \o t \in Seq(S)
      /\ \A i \in DOMAIN s : i \in DOMAIN (s \o t) /\ (s \o t)[i] = s[i]
  BY <1>4, ConcatOfBindings
<1>7. ASSUME T # {} PROVE \E i \in DOMAIN (s \o t) : (s \o t)[i] = x
  <2>1. /\ Len(s) \in Nat /\ Len(s \o t) = Len(s) + 1 /\ DOMAIN (s \o t) = 1..Len(s \o t)
        /\ (s \o t)[Len(s) + 1] = t[1]
    <3>1. /\ Len(s) \in Nat /\ Len(s \o t) = Len(s) + Len(t) /\ Len(t) = 1
          /\ \A i \in (Len(s) + 1)..(Len(s) + Len(t)) : (s \o t)[i] = t[i - Len(s)]
      BY <1>4, <1>5, <1>7, ConcatProperties, LenProperties
    <3>2. DOMAIN (s \o t) = 1..Len(s \o t)
      BY <1>6, LenProperties
    <3>3. (s \o t)[Len(s) + 1] = t[Len(s) + 1 - Len(s)] /\ Len(s) + 1 - Len(s) = 1
      BY <3>1
    <3>4. QED
      BY <3>1, <3>2, <3>3
  <2>2. Len(s) + 1 \in DOMAIN (s \o t)
    BY <2>1
  <2>3. QED
    BY <1>5, <1>7, <2>1, <2>2
<1>8. QED
  BY <1>6, <1>7 DEF t

\* What the facts add to o.
Adds(facts, n) ==
  /\ \A f \in OfKind(facts, "ref") : f.oid \in KnownOids(n)
  /\ \A f \in OfKind(facts, "pull") : f.updated <= n.pull.updated /\ f.commits \subseteq n.pull.commits
  /\ \A f \in OfKind(facts, "review") : f.number <= n.reviews
  /\ \A f \in OfKind(facts, "check") : n.checks[f.head] = f.status

\* The pull request of a valid set of facts is later than that of the log, and has its
\* commits and more.
LEMMA ValidPull ==
  ASSUME GithubType, CommitsOK(observed), NEW cursor \in CursorType, ValidPrepared(FactsOf(cursor)),
         NEW f \in OfKind(FactsOf(cursor), "pull")
  PROVE  /\ f.updated = github.updated /\ f.commits = 1..github.pushed
         /\ f.updated > observed.pull.updated /\ observed.pull.commits \subseteq f.commits
<1>1. f = ThePull(cursor) /\ f \in FactsOf(cursor) /\ f.kind = "pull"
  BY FactsByKind DEF OfKind
<1>2. f.commits # {} /\ f.updated > observed.pull.updated
  BY <1>1 DEF ValidPrepared, ApplyPullRequestObserved
<1>3. f.updated = github.updated /\ f.commits = 1..github.pushed
  BY <1>1, <1>2 DEF ThePull, PullFact, CollectCommits
<1>4. PICK m \in 0..github.pushed : observed.pull.commits = 1..m
  BY DEF CommitsOK
<1>5. 1..m \subseteq 1..github.pushed
  BY <1>4 DEF GithubType
<1>6. QED
  BY <1>2, <1>3, <1>4, <1>5

LEMMA CurrentRefIsRef ==
  ASSUME observed \in ObservedType, observed.refs # <<>>
  PROVE  Len(observed.refs) \in DOMAIN observed.refs /\ CurrentRef \in RefFacts
<1>1. observed.refs \in Seq(RefFacts)
  BY DEF ObservedType
<1>2. Len(observed.refs) \in Nat /\ Len(observed.refs) # 0
  BY <1>1, EmptySeq, LenProperties
<1>3. DOMAIN observed.refs = 1..Len(observed.refs)
  BY <1>1, LenProperties
<1>4. QED
  BY <1>1, <1>2, <1>3, ElementOfSeq DEF CurrentRef

\* The reviews that are not in the log are those after the ones that are.
LEMMA ValidReviews ==
  ASSUME GithubType, observed \in ObservedType, NEW cursor \in CursorType
  PROVE  LET numbers == {f.number : f \in OfKind(FactsOf(cursor), "review")}
         IN  /\ \A n \in numbers : n \in Nat /\ n <= github.reviews /\ n > observed.reviews
             /\ numbers # {} => Max(numbers) = github.reviews /\ github.reviews > observed.reviews
<1>. DEFINE facts == OfKind(FactsOf(cursor), "review")
            numbers == {f.number : f \in facts}
<1>1. github.reviews \in Nat /\ observed.reviews \in Nat
  BY DEF GithubType, ObservedType
<1>2. ASSUME NEW f \in facts
      PROVE  f.number \in 1..github.reviews /\ f.number > observed.reviews
  <2>1. f \in Reviews /\ f.kind = "review" /\ f \in FactsOf(cursor)
    BY FactsByKind DEF OfKind
  <2>2. ~SameRemoteFact(f)
    BY <2>1 DEF FactsOf, RemoteObservationEvents
  <2>3. f.number \in 1..github.reviews
    BY <2>1 DEF Reviews, ReviewFact
  <2>4. QED
    BY <1>1, <2>1, <2>2, <2>3 DEF SameRemoteFact
<1>3. ASSUME NEW f \in facts PROVE \E last \in facts : last.number = github.reviews
  <2>. DEFINE last == ReviewFact(github.reviews)
  <2>1. f \in Reviews /\ f.kind = "review" /\ f \in FactsOf(cursor)
    BY FactsByKind DEF OfKind
  <2>2. github.reviews \in 1..github.reviews /\ github.reviews > observed.reviews
    BY <1>1, <1>2
  <2>3. Reviews \subseteq Asked(cursor)
    <3>1. f \notin {TheRef(cursor)} /\ f \notin {ThePull(cursor)} /\ f \notin Checks(cursor)
      BY <2>1, FactsByKind
    <3>2. f \in Asked(cursor)
      BY <2>1 DEF FactsOf, RemoteObservationEvents
    <3>3. f \in CollectReviews(cursor) /\ ListModified(cursor)
      BY <3>1, <3>2 DEF Asked, ObserveRef, TheRef, RefFact, ObservePull, CollectPull, ThePull,
        ActiveChecks, CollectChecks, Checks, Checked
    <3>4. Reviews = CollectReviews(cursor)
      BY <3>3 DEF CollectReviews, Reviews
    <3>5. QED
      BY <3>3, <3>4 DEF Asked, ObservePull, CollectPull
  <2>4. last \in Reviews /\ last.kind = "review" /\ last.number = github.reviews
    BY <2>2 DEF Reviews, ReviewFact
  <2>5. ~SameRemoteFact(last)
    <3>2. observed.refs # <<>> => last # CurrentRef
      BY <2>4, CurrentRefIsRef DEF RefFacts
    <3>3. last # PullFact(observed.pull.updated, observed.pull.commits)
      BY <2>4 DEF PullFact
    <3>4. \A k \in Pushes : last # CheckFact(k, observed.checks[k])
      BY <2>4 DEF CheckFact
    <3>5. ~(last.number <= observed.reviews)
      BY <1>1, <2>2, <2>4
    <3>6. QED
      BY <3>2, <3>3, <3>4, <3>5 DEF SameRemoteFact
  <2>6. QED
    BY <2>3, <2>4, <2>5 DEF FactsOf, RemoteObservationEvents, OfKind
<1>4. \A n \in numbers : n \in Nat /\ n <= github.reviews /\ n > observed.reviews
  BY <1>1, <1>2
<1>5. ASSUME numbers # {} PROVE Max(numbers) = github.reviews /\ github.reviews > observed.reviews
  <2>1. github.reviews \in numbers
    BY <1>3, <1>5
  <2>. HIDE DEF numbers
  <2>2. QED
    BY <1>1, <1>4, <2>1 DEF Max
<1>6. QED
  BY <1>4, <1>5

LEMMA FactsAdvance ==
  ASSUME RemoteInv, NEW cursor \in CursorType, ValidPrepared(FactsOf(cursor)), FactsOf(cursor) # {}
  PROVE  LET n == WithFacts(observed, FactsOf(cursor))
         IN  /\ n \in ObservedType /\ n.length > observed.length /\ Advances(observed, n)
             /\ CommitsOK(n) /\ Adds(FactsOf(cursor), n)
<1>. DEFINE facts == FactsOf(cursor)
            length == observed.length + Cardinality(facts)
            refs == observed.refs \o SetToSeq(OfKind(facts, "ref"))
            pull == IF OfKind(facts, "pull") = {} THEN observed.pull
                    ELSE LET f == CHOOSE f \in OfKind(facts, "pull") : TRUE
                         IN [updated |-> f.updated, commits |-> f.commits]
            reviews == IF OfKind(facts, "review") = {} THEN observed.reviews
                       ELSE Max({f.number : f \in OfKind(facts, "review")})
            checks == [k \in Pushes |->
                        IF \E f \in OfKind(facts, "check") : f.head = k
                        THEN (CHOOSE f \in OfKind(facts, "check") : f.head = k).status
                        ELSE observed.checks[k]]
            n == WithFacts(observed, facts)
<1>1. /\ GithubType /\ observed \in ObservedType /\ CommitsOK(observed) /\ observed.remote \in BOOLEAN
      /\ observed.length \in Nat /\ observed.refs \in Seq(RefFacts)
      /\ observed.pull \in [updated : Nat, commits : SUBSET Nat] /\ observed.reviews \in Nat
      /\ observed.checks \in [Pushes -> CheckStatus]
      /\ github.pushed \in Nat /\ github.updated \in Nat /\ github.reviews \in Nat
      /\ github.checks \in [Pushes -> CheckStatus] /\ github.ref \in Oid /\ cursor.oid \in Oid
  BY MaxPullAssumption DEF RemoteInv, ObservedType, GithubType, CursorType
<1>2. length \in Nat /\ length > observed.length
  <2>1. IsFiniteSet(facts) /\ facts # {}
    BY <1>1, AskedIsFinite
  <2>2. Cardinality(facts) \in Nat /\ Cardinality(facts) # 0
    BY <2>1, FS_CardinalityType, FS_EmptySet
  <2>3. QED
    BY <1>1, <2>2
<1>3. /\ refs \in Seq(RefFacts)
      /\ \A i \in DOMAIN observed.refs : i \in DOMAIN refs /\ refs[i] = observed.refs[i]
      /\ \A f \in OfKind(facts, "ref") : \E i \in DOMAIN refs : refs[i] = f
  <2>1. TheRef(cursor) \in RefFacts
    BY <1>1 DEF TheRef, RefFact, RefFacts
  <2>2. OfKind(facts, "ref") \in SUBSET {TheRef(cursor)}
    BY <1>1, FactsByKind
  <2>. DEFINE T == OfKind(facts, "ref")
              x == TheRef(cursor)
  <2>3. x \in RefFacts /\ T \in SUBSET {x} /\ refs = observed.refs \o SetToSeq(T)
    BY <2>1, <2>2
  <2>. HIDE DEF facts, T, x, refs
  <2>4. /\ refs \in Seq(RefFacts)
        /\ \A i \in DOMAIN observed.refs : i \in DOMAIN refs /\ refs[i] = observed.refs[i]
        /\ T # {} => \E i \in DOMAIN refs : refs[i] = x
    <3>1. /\ observed.refs \o SetToSeq(T) \in Seq(RefFacts)
          /\ \A i \in DOMAIN observed.refs : i \in DOMAIN (observed.refs \o SetToSeq(T))
                                             /\ (observed.refs \o SetToSeq(T))[i] = observed.refs[i]
          /\ T # {} => \E i \in DOMAIN (observed.refs \o SetToSeq(T)) :
                         (observed.refs \o SetToSeq(T))[i] = x
      <4>. DEFINE s == observed.refs
      <4>1. s \in Seq(RefFacts)
        BY <1>1
      <4>. HIDE DEF s
      <4>2. /\ s \o SetToSeq(T) \in Seq(RefFacts)
            /\ \A i \in DOMAIN s : i \in DOMAIN (s \o SetToSeq(T)) /\ (s \o SetToSeq(T))[i] = s[i]
            /\ T # {} => \E i \in DOMAIN (s \o SetToSeq(T)) : (s \o SetToSeq(T))[i] = x
        BY <2>3, <4>1, AppendOfOne, SMTT(30)
      <4>3. QED
        BY <4>2 DEF s
    <3>2. QED
      BY <2>3, <3>1
  <2>5. \A f \in T : f = x /\ T # {}
    BY <2>3
  <2>6. QED
    BY <2>4, <2>5 DEF T
<1>4. /\ pull \in [updated : Nat, commits : SUBSET Nat] /\ observed.pull.updated <= pull.updated
      /\ observed.pull.commits \subseteq pull.commits
      /\ \A f \in OfKind(facts, "pull") : f.updated <= pull.updated /\ f.commits \subseteq pull.commits
      /\ \E m \in 0..github.pushed : pull.commits = 1..m
  <2>1. CASE OfKind(facts, "pull") = {}
    BY <1>1, <2>1 DEF CommitsOK
  <2>2. CASE OfKind(facts, "pull") # {}
    <3>1. \A f \in OfKind(facts, "pull") :
            /\ f.updated = github.updated /\ f.commits = 1..github.pushed
            /\ f.updated > observed.pull.updated /\ observed.pull.commits \subseteq f.commits
      BY <1>1, ValidPull
    <3>2. pull = [updated |-> github.updated, commits |-> 1..github.pushed]
      BY <2>2, <3>1
    <3>3. 1..github.pushed \subseteq Nat /\ github.pushed \in 0..github.pushed
      BY <1>1
    <3>. HIDE DEF pull
    <3>4. QED
      BY <1>1, <2>2, <3>1, <3>2, <3>3
  <2>3. QED
    BY <2>1, <2>2
<1>5. /\ reviews \in Nat /\ observed.reviews <= reviews
      /\ \A f \in OfKind(facts, "review") : f.number <= reviews
  <2>. DEFINE numbers == {f.number : f \in OfKind(facts, "review")}
  <2>1. /\ \A k \in numbers : k \in Nat /\ k <= github.reviews /\ k > observed.reviews
        /\ numbers # {} => Max(numbers) = github.reviews /\ github.reviews > observed.reviews
    BY <1>1, ValidReviews
  <2>2. /\ numbers = {} => reviews = observed.reviews
        /\ numbers # {} => reviews = Max(numbers)
    OBVIOUS
  <2>3. \A f \in OfKind(facts, "review") : f.number \in numbers
    OBVIOUS
  <2>. HIDE DEF numbers, reviews
  <2>4. QED
    BY <1>1, <2>1, <2>2, <2>3
<1>6. /\ checks \in [Pushes -> CheckStatus]
      /\ \A k \in Pushes : observed.checks[k] = "completed" => checks[k] = "completed"
      /\ \A f \in OfKind(facts, "check") : checks[f.head] = f.status
  <2>1. ASSUME NEW f \in OfKind(facts, "check")
        PROVE  /\ f.head \in Pushes /\ f.status = github.checks[f.head]
               /\ observed.checks[f.head] # "completed"
    <3>1. f \in Checks(cursor) /\ f.kind = "check" /\ f \in facts
      BY <1>1, FactsByKind DEF OfKind
    <3>2. f.head \in Pushes /\ f.status = github.checks[f.head]
      BY <1>1, <3>1, CheckedPushes DEF Checks, CheckFact
    <3>3. QED
      BY <3>1, <3>2 DEF ValidPrepared, ApplyCheckObserved
  <2>2. ASSUME NEW k \in Pushes, NEW f \in OfKind(facts, "check"), f.head = k
        PROVE  checks[k] = github.checks[k] /\ f.status = github.checks[k] /\ observed.checks[k] # "completed"
    BY <2>1, <2>2
  <2>3. ASSUME NEW k \in Pushes, ~\E f \in OfKind(facts, "check") : f.head = k
        PROVE  checks[k] = observed.checks[k]
    BY <2>3
  <2>4. ASSUME NEW k \in Pushes
        PROVE  checks[k] \in CheckStatus /\ (observed.checks[k] = "completed" => checks[k] = "completed")
    BY <1>1, <2>2, <2>3
  <2>5. checks = [k \in Pushes |-> checks[k]]
    OBVIOUS
  <2>. HIDE DEF checks
  <2>6. QED
    BY <2>1, <2>2, <2>4, <2>5
<1>7. n = [observed EXCEPT !.length = length, !.refs = refs, !.pull = pull, !.reviews = reviews,
             !.checks = checks]
  BY DEF WithFacts
<1>. HIDE DEF length, refs, pull, reviews, checks, n, facts
<1>8. n = [length |-> length, remote |-> observed.remote, refs |-> refs, pull |-> pull,
           reviews |-> reviews, checks |-> checks]
  BY <1>1, <1>7 DEF ObservedType
<1>9. n \in ObservedType /\ n.length > observed.length
  BY <1>1, <1>2, <1>3, <1>4, <1>5, <1>6, <1>8 DEF ObservedType
<1>10. KnownOids(observed) \subseteq KnownOids(n)
  BY <1>3, <1>8 DEF KnownOids
<1>11. Advances(observed, n)
  BY <1>4, <1>5, <1>6, <1>8, <1>10 DEF Advances
<1>12. CommitsOK(n)
  BY <1>4, <1>8 DEF CommitsOK
<1>13. \A f \in OfKind(facts, "ref") : f.oid \in KnownOids(n)
  BY <1>3, <1>8 DEF KnownOids
<1>14. Adds(facts, n)
  BY <1>4, <1>5, <1>6, <1>8, <1>13 DEF Adds
<1>15. QED
  BY <1>9, <1>11, <1>12, <1>14 DEF n, facts

LEMMA RefFollows ==
  ASSUME GithubType, observed \in ObservedType, NEW cursor \in CursorType, Follows(observed, cursor),
         NEW n, Advances(observed, n), Adds(FactsOf(cursor), n)
  PROVE  LET after == CursorRef(cursor)
         IN  /\ after \in CursorType
             /\ after.active = cursor.active
             /\ \A t \in {"list", "detail", "commits", "reviews", "checks"} : after.tags[t] = cursor.tags[t]
             /\ {after.oid, after.tags.ref} \subseteq KnownOids(n)
<1>. DEFINE after == CursorRef(cursor)
<1>1. /\ github.ref \in Oid /\ cursor.oid \in Oid /\ cursor.tags \in TagsType /\ cursor.active \in 0..MaxPull
      /\ {cursor.oid, cursor.tags.ref} \subseteq KnownOids(n) /\ Absent \in KnownOids(n) /\ Absent \in Oid
  BY DEF GithubType, CursorType, Follows, Advances, KnownOids, Oid
<1>2. CASE github.ref = Absent
  <2>1. after = [cursor EXCEPT !.oid = Absent]
    BY <1>2 DEF CursorRef
  <2>2. after = [oid |-> Absent, active |-> cursor.active, tags |-> cursor.tags]
    BY <2>1 DEF CursorType
  <2>3. QED
    BY <1>1, <2>2 DEF CursorType
<1>3. CASE github.ref # Absent /\ NotModified(cursor.tags.ref, github.ref)
  BY <1>1, <1>3 DEF CursorRef
<1>4. CASE github.ref # Absent /\ ~NotModified(cursor.tags.ref, github.ref)
  <2>. DEFINE tags == [cursor.tags EXCEPT !.ref = github.ref]
  <2>1. after = [cursor EXCEPT !.oid = github.ref, !.tags = tags]
    BY <1>4 DEF CursorRef
  <2>2. tags = [ref |-> github.ref, list |-> cursor.tags.list, detail |-> cursor.tags.detail,
                commits |-> cursor.tags.commits, reviews |-> cursor.tags.reviews,
                checks |-> cursor.tags.checks]
    BY <1>1 DEF TagsType
  <2>3. tags \in TagsType
    BY <1>1, <2>2 DEF TagsType
  <2>. HIDE DEF tags
  <2>4. after = [oid |-> github.ref, active |-> cursor.active, tags |-> tags]
    BY <2>1 DEF CursorType
  <2>5. github.ref \in KnownOids(n)
    <3>1. CASE cursor.oid = github.ref
      BY <1>1, <3>1
    <3>2. CASE cursor.oid # github.ref
      <4>1. TheRef(cursor) \in Asked(cursor)
        BY <1>4, <3>2 DEF Asked, ObserveRef, TheRef
      <4>2. CASE SameRemoteFact(TheRef(cursor))
        <5>1. observed.refs # <<>> /\ TheRef(cursor) = CurrentRef
          BY <4>2 DEF SameRemoteFact, TheRef, RefFact, PullFact, CheckFact
        <5>2. github.ref \in KnownOids(observed)
          BY <5>1, CurrentRefIsRef DEF KnownOids, CurrentRef, TheRef, RefFact
        <5>3. QED
          BY <5>2 DEF Advances
      <4>3. CASE ~SameRemoteFact(TheRef(cursor))
        <5>1. TheRef(cursor) \in OfKind(FactsOf(cursor), "ref")
          BY <4>1, <4>3 DEF FactsOf, RemoteObservationEvents, OfKind, TheRef, RefFact
        <5>2. QED
          BY <5>1 DEF Adds, TheRef, RefFact
      <4>4. QED
        BY <4>2, <4>3
    <3>3. QED
      BY <3>1, <3>2
  <2>6. QED
    BY <1>1, <2>2, <2>3, <2>4, <2>5 DEF CursorType, tags
<1>5. QED
  BY <1>2, <1>3, <1>4

\* The cursor of a sync, as a record.
LEMMA CursorPullIs ==
  ASSUME GithubType, NEW c \in CursorType
  PROVE  LET listed == ListModified(c)
             checks == IF listed THEN [c.tags.checks EXCEPT ![github.pushed] = github.checks[github.pushed]]
                       ELSE [k \in Pushes |-> IF k = c.active THEN github.checks[k] ELSE c.tags.checks[k]]
         IN CursorPull(c) =
              [oid |-> c.oid, active |-> IF listed THEN github.pushed ELSE c.active,
               tags |-> [ref |-> c.tags.ref, list |-> github.updated,
                         detail |-> IF listed THEN github.updated ELSE c.tags.detail,
                         commits |-> IF listed THEN github.pushed ELSE c.tags.commits,
                         reviews |-> IF listed THEN github.reviews ELSE c.tags.reviews,
                         checks |-> checks]]
<1>1. c = [oid |-> c.oid, active |-> c.active, tags |-> c.tags]
  BY DEF CursorType
<1>2. c.tags = [ref |-> c.tags.ref, list |-> c.tags.list, detail |-> c.tags.detail,
                commits |-> c.tags.commits, reviews |-> c.tags.reviews, checks |-> c.tags.checks]
  BY DEF CursorType, TagsType
<1>3. CASE ListModified(c)
  <2>. DEFINE checks == [c.tags.checks EXCEPT ![github.pushed] = github.checks[github.pushed]]
              tags == [c.tags EXCEPT !.list = github.updated, !.detail = github.updated,
                         !.commits = github.pushed, !.reviews = github.reviews, !.checks = checks]
  <2>1. CursorPull(c) = [c EXCEPT !.active = github.pushed, !.tags = tags]
    BY <1>1, <1>2, <1>3 DEF CursorPull
  <2>2. QED
    BY <1>1, <1>2, <1>3, <2>1
<1>4. CASE ~ListModified(c)
  <2>. DEFINE checks == [k \in Pushes |-> IF k = c.active THEN github.checks[k] ELSE c.tags.checks[k]]
              tags == [c.tags EXCEPT !.list = github.updated, !.checks = checks]
  <2>1. CursorPull(c) = [c EXCEPT !.tags = tags]
    BY <1>1, <1>2, <1>4 DEF CursorPull
  <2>2. QED
    BY <1>1, <1>2, <1>4, <2>1
<1>5. QED
  BY <1>3, <1>4

\* GitHub says "not modified" of a resource only if the log has what it is, and any other
\* answer is in the facts, unless the log has it.
LEMMA CursorFollows ==
  ASSUME GithubType, observed \in ObservedType, NEW cursor \in CursorType, Follows(observed, cursor),
         ValidPrepared(FactsOf(cursor)),
         NEW n \in ObservedType, Advances(observed, n), Adds(FactsOf(cursor), n)
  PROVE  LET after == CursorPull(CursorRef(cursor))
         IN  after \in CursorType /\ Follows(n, after)
<1>. DEFINE c == CursorRef(cursor)
            after == CursorPull(c)
            listed == ListModified(cursor)
            updated == github.updated
            pushed == github.pushed
<1>1. /\ c \in CursorType /\ c.active = cursor.active
      /\ c.tags.list = cursor.tags.list /\ c.tags.detail = cursor.tags.detail
      /\ c.tags.commits = cursor.tags.commits /\ c.tags.reviews = cursor.tags.reviews
      /\ c.tags.checks = cursor.tags.checks
      /\ {c.oid, c.tags.ref} \subseteq KnownOids(n)
  BY RefFollows
<1>2. ListModified(c) = listed
  BY <1>1 DEF ListModified
<1>3. Follows(n, cursor)
  BY StillFollows
<1>4. /\ github.checks \in [Pushes -> CheckStatus] /\ observed.checks \in [Pushes -> CheckStatus]
      /\ n.checks \in [Pushes -> CheckStatus] /\ cursor.tags \in TagsType
      /\ updated \in Nat /\ updated \in Int /\ pushed \in Nat /\ pushed \in 0..MaxPull
      /\ github.reviews \in Nat
      /\ observed.pull.updated \in Nat /\ n.pull.updated \in Nat /\ observed.reviews \in Nat /\ n.reviews \in Nat
      /\ cursor.active \in 0..MaxPull
  BY MaxPullAssumption DEF GithubType, ObservedType, CursorType
<1>5. ASSUME NEW k \in Pushes, k \in Checked(cursor)
      PROVE  github.checks[k] \in {"none", "queued", n.checks[k]}
  <2>1. CASE NotModified(cursor.tags.checks[k], github.checks[k])
    BY <1>3, <2>1 DEF Follows, NotModified
  <2>2. CASE ~NotModified(cursor.tags.checks[k], github.checks[k])
    <3>. DEFINE f == CheckFact(k, github.checks[k])
    <3>1. f \in Asked(cursor)
      <4>1. k # 0
        BY DEF Pushes
      <4>2. QED
        BY <1>5, <2>2, <4>1 DEF Checked, Asked, ObservePull, CollectPull, ActiveChecks, CollectChecks
    <3>2. f.kind = "check" /\ f.head = k /\ f.status = github.checks[k]
      BY DEF CheckFact
    <3>3. CASE f \in FactsOf(cursor)
      BY <3>2, <3>3 DEF Adds, OfKind
    <3>4. CASE f \notin FactsOf(cursor)
      <4>1. SameRemoteFact(f)
        BY <3>1, <3>4 DEF FactsOf, RemoteObservationEvents
      <4>2. observed.refs # <<>> => f # CurrentRef
        BY <3>2, CurrentRefIsRef DEF RefFacts
      <4>3. f # PullFact(observed.pull.updated, observed.pull.commits)
        BY <3>2 DEF PullFact
      <4>4. \E j \in Pushes : f = CheckFact(j, observed.checks[j])
        BY <3>2, <4>1, <4>2, <4>3 DEF SameRemoteFact
      <4>5. github.checks[k] = observed.checks[k]
        BY <3>2, <4>4 DEF CheckFact
      <4>6. QED
        BY <1>4, <4>5 DEF Advances, CheckStatus
    <3>5. QED
      BY <3>3, <3>4
  <2>3. QED
    BY <2>1, <2>2
<1>6. CASE listed
  <2>1. after = [oid |-> c.oid, active |-> pushed,
                 tags |-> [ref |-> c.tags.ref, list |-> updated, detail |-> updated, commits |-> pushed,
                           reviews |-> github.reviews,
                           checks |-> [c.tags.checks EXCEPT ![pushed] = github.checks[pushed]]]]
    BY <1>1, <1>2, <1>6, CursorPullIs
  <2>2. pushed \in Pushes
    BY <1>6 DEF ListModified, GithubType
  <2>3. after \in CursorType
    <3>. DEFINE checks == [c.tags.checks EXCEPT ![pushed] = github.checks[pushed]]
    <3>1. checks \in [Pushes -> CheckStatus]
      BY <1>1, <1>4 DEF CursorType, TagsType
    <3>2. c.oid \in Oid /\ c.tags.ref \in Oid
      BY <1>1 DEF CursorType, TagsType
    <3>. HIDE DEF checks, c
    <3>3. QED
      BY <1>4, <2>1, <3>1, <3>2 DEF CursorType, TagsType, checks
  <2>4. updated <= n.pull.updated /\ pushed \in n.pull.commits
    <3>. DEFINE f == ThePull(cursor)
    <3>1. f \in Asked(cursor) /\ f.kind = "pull" /\ f.updated = updated /\ f.commits = CollectCommits(cursor)
      BY <1>6 DEF Asked, ObservePull, CollectPull, ThePull, PullFact
    <3>2. CollectCommits(cursor) # {} => CollectCommits(cursor) = 1..pushed
      BY DEF CollectCommits
    <3>3. pushed \in 1..pushed
      BY <1>4, <2>2 DEF Pushes
    <3>4. CASE f \in FactsOf(cursor)
      <4>1. f.commits # {}
        BY <3>1, <3>4 DEF ValidPrepared, ApplyPullRequestObserved
      <4>2. f \in OfKind(FactsOf(cursor), "pull")
        BY <3>1, <3>4 DEF OfKind
      <4>3. QED
        BY <3>1, <3>2, <3>3, <4>1, <4>2 DEF Adds
    <3>5. CASE f \notin FactsOf(cursor)
      <4>1. SameRemoteFact(f)
        BY <3>1, <3>5 DEF FactsOf, RemoteObservationEvents
      <4>2. observed.refs # <<>> => f # CurrentRef
        BY <3>1, CurrentRefIsRef DEF RefFacts
      <4>3. \A k \in Pushes : f # CheckFact(k, observed.checks[k])
        BY <3>1 DEF CheckFact
      <4>4. f = PullFact(observed.pull.updated, observed.pull.commits)
        BY <3>1, <4>1, <4>2, <4>3 DEF SameRemoteFact
      <4>5. updated = observed.pull.updated /\ CollectCommits(cursor) = observed.pull.commits
        BY <3>1, <4>4 DEF PullFact
      <4>6. pushed \in observed.pull.commits
        <5>1. CASE NotModified(cursor.tags.commits, pushed)
          <6>1. pushed \in observed.pull.commits \cup {0}
            BY <5>1 DEF Follows, NotModified
          <6>2. pushed # 0
            BY <2>2 DEF Pushes
          <6>3. QED
            BY <6>1, <6>2
        <5>2. CASE ~NotModified(cursor.tags.commits, pushed)
          BY <3>3, <4>5, <5>2 DEF CollectCommits
        <5>3. QED
          BY <5>1, <5>2
      <4>7. QED
        BY <4>5, <4>6, <1>4 DEF Advances
    <3>6. QED
      BY <3>4, <3>5
  <2>5. github.reviews <= n.reviews
    <3>1. CASE NotModified(cursor.tags.reviews, github.reviews)
      BY <1>3, <3>1 DEF Follows, NotModified
    <3>2. CASE github.reviews <= observed.reviews
      BY <1>4, <3>2 DEF Advances
    <3>3. CASE ~NotModified(cursor.tags.reviews, github.reviews) /\ github.reviews > observed.reviews
      <4>. DEFINE f == ReviewFact(github.reviews)
      <4>1. f.kind = "review" /\ f.number = github.reviews
        BY DEF ReviewFact
      <4>2. github.reviews \in 1..github.reviews
        BY <1>4, <3>3
      <4>3. f \in Asked(cursor)
        BY <1>6, <3>3, <4>2 DEF Asked, ObservePull, CollectPull, CollectReviews
      <4>4. ~SameRemoteFact(f)
        <5>1. observed.refs # <<>> => f # CurrentRef
          BY <4>1, CurrentRefIsRef DEF RefFacts
        <5>2. f # PullFact(observed.pull.updated, observed.pull.commits)
          BY <4>1 DEF PullFact
        <5>3. \A k \in Pushes : f # CheckFact(k, observed.checks[k])
          BY <4>1 DEF CheckFact
        <5>4. ~(f.number <= observed.reviews)
          BY <1>4, <3>3, <4>1
        <5>5. QED
          BY <5>1, <5>2, <5>3, <5>4 DEF SameRemoteFact
      <4>5. f \in OfKind(FactsOf(cursor), "review")
        BY <4>1, <4>3, <4>4 DEF FactsOf, RemoteObservationEvents, OfKind
      <4>6. QED
        BY <4>1, <4>5 DEF Adds
    <3>4. QED
      BY <1>4, <3>1, <3>2, <3>3
  <2>6. \A k \in Pushes : after.tags.checks[k] \in {"none", "queued", n.checks[k]}
    <3>1. after.tags.checks = [cursor.tags.checks EXCEPT ![pushed] = github.checks[pushed]]
      BY <1>1, <2>1
    <3>2. cursor.tags.checks \in [Pushes -> CheckStatus]
      BY <1>4 DEF TagsType
    <3>3. \A k \in Pushes : after.tags.checks[k] = IF k = pushed THEN github.checks[pushed]
                                                   ELSE cursor.tags.checks[k]
      BY <3>1, <3>2
    <3>4. github.checks[pushed] \in {"none", "queued", n.checks[pushed]}
      <4>1. pushed \in Checked(cursor)
        BY <1>6 DEF Checked
      <4>. HIDE DEF pushed
      <4>2. QED
        BY <1>5, <2>2, <4>1
    <3>5. \A k \in Pushes : cursor.tags.checks[k] \in {"none", "queued", n.checks[k]}
      BY <1>3 DEF Follows
    <3>. HIDE DEF after
    <3>6. QED
      BY <3>3, <3>4, <3>5
  <2>7. /\ after.oid = c.oid /\ after.tags.ref = c.tags.ref /\ after.tags.list = updated
        /\ after.tags.reviews = github.reviews /\ after.tags.commits = pushed
    BY <2>1
  <2>8. QED
    BY <1>1, <2>3, <2>4, <2>5, <2>6, <2>7 DEF Follows
<1>7. CASE ~listed
  <2>. DEFINE checks == [k \in Pushes |-> IF k = cursor.active THEN github.checks[k]
                                         ELSE cursor.tags.checks[k]]
  <2>1. after = [oid |-> c.oid, active |-> cursor.active,
                 tags |-> [ref |-> c.tags.ref, list |-> updated, detail |-> cursor.tags.detail,
                           commits |-> cursor.tags.commits, reviews |-> cursor.tags.reviews,
                           checks |-> checks]]
    BY <1>1, <1>2, <1>7, CursorPullIs
  <2>2. checks \in [Pushes -> CheckStatus]
    BY <1>4 DEF TagsType
  <2>3. \A k \in Pushes : checks[k] \in {"none", "queued", n.checks[k]}
    <3>1. \A k \in Pushes : k = cursor.active => k \in Checked(cursor)
      BY <1>7 DEF Checked, Pushes
    <3>2. QED
      BY <1>3, <1>5, <3>1 DEF Follows
  <2>4. updated <= n.pull.updated
    BY <1>3, <1>4, <1>7 DEF ListModified, NotModified, Follows
  <2>5. c.oid \in Oid /\ c.tags.ref \in Oid
    BY <1>1 DEF CursorType, TagsType
  <2>. HIDE DEF checks, c
  <2>6. after \in CursorType
    BY <1>4, <2>1, <2>2, <2>5 DEF CursorType, TagsType
  <2>7. /\ after.oid = c.oid /\ after.tags.ref = c.tags.ref /\ after.tags.list = updated
        /\ after.tags.reviews = cursor.tags.reviews /\ after.tags.commits = cursor.tags.commits
        /\ after.tags.checks = checks
    BY <2>1
  <2>8. QED
    BY <1>1, <1>3, <2>3, <2>4, <2>6, <2>7 DEF Follows, c
<1>8. QED
  BY <1>6, <1>7
-----------------------------------------------------------------------------
(* The operations. *)
LEMMA RemoteInitInv == RemoteInit => RemoteInv
<1>. SUFFICES ASSUME RemoteInit PROVE RemoteInv
  OBVIOUS
<1>1. PICK h \in Heads : github =
        [ref |-> h, moves |-> 0, updated |-> 0, pushed |-> 0, reviews |-> 0,
         checks |-> [k \in Pushes |-> "none"]]
  BY DEF RemoteInit
<1>2. GithubType
  <2>1. h \in Oid /\ 0 \in 0..MaxPull /\ [k \in Pushes |-> "none"] \in [Pushes -> CheckStatus]
    BY MaxPullAssumption DEF Oid, CheckStatus
  <2>2. QED
    BY <1>1, <2>1 DEF GithubType
<1>3. observed \in ObservedType
  <2>1. observed = [length |-> 1, remote |-> FALSE, refs |-> <<>>,
                    pull |-> [updated |-> 0, commits |-> {}], reviews |-> 0,
                    checks |-> [k \in Pushes |-> "none"]]
    BY DEF RemoteInit
  <2>. DEFINE remote == FALSE
  <2>2. remote \in BOOLEAN /\ <<>> \in Seq(RefFacts) /\ [k \in Pushes |-> "none"] \in [Pushes -> CheckStatus]
    BY DEF CheckStatus
  <2>3. observed = [length |-> 1, remote |-> remote, refs |-> <<>>,
                    pull |-> [updated |-> 0, commits |-> {}], reviews |-> 0,
                    checks |-> [k \in Pushes |-> "none"]]
    BY <2>1
  <2>. HIDE DEF remote
  <2>4. QED
    BY <2>2, <2>3 DEF ObservedType
<1>4. CommitsOK(observed)
  <2>1. observed.pull.commits = {} /\ github.pushed = 0
    BY <1>1 DEF RemoteInit
  <2>2. 0 \in 0..github.pushed /\ observed.pull.commits = 1..0
    BY <2>1
  <2>3. QED
    BY <2>2 DEF CommitsOK
<1>5. saved \in [config : BOOLEAN, cursor : CursorType] /\ Follows(observed, saved.cursor)
  <2>1. NoCursor \in CursorType /\ Follows(observed, NoCursor)
    BY <1>3, EmptyCursor
  <2>. DEFINE config == FALSE
  <2>2. saved = [config |-> config, cursor |-> NoCursor] /\ config \in BOOLEAN
    BY DEF RemoteInit
  <2>. HIDE DEF config
  <2>3. QED
    BY <2>1, <2>2
<1>6. /\ syncing = [p \in Syncers |-> syncing[p]]
      /\ \A p \in Syncers : SyncOK(p)
  BY DEF RemoteInit, SyncOK, NoSync
<1>7. QED
  BY <1>2, <1>3, <1>4, <1>5, <1>6 DEF RemoteInv

\* A step of one process that leaves GitHub and the log as they are.
LEMMA ProceedsPreserves ==
  ASSUME RemoteInv, NEW p \in Syncers, NEW next, Proceeds(p, next), github' = github, observed' = observed,
         \/ next = NoSync \/ next.phase = "connecting" \/ next.phase = "connected"
         \/ next.phase = "appended" /\ next.cursor \in CursorType /\ Follows(observed, next.cursor)
         \/ /\ next.phase = "prepared" /\ next.cursor \in CursorType /\ next.at = observed.length
            /\ Carries(observed, next.facts, next.cursor),
         saved' \in [config : BOOLEAN, cursor : CursorType], Follows(observed, saved'.cursor)
  PROVE  RemoteInv'
<1>1. /\ syncing' = [syncing EXCEPT ![p] = next] /\ syncing = [q \in Syncers |-> syncing[q]]
      /\ GithubType /\ observed \in ObservedType /\ github.pushed \in Nat /\ CommitsOK(observed)
  BY DEF Proceeds, RemoteInv, GithubType
<1>2. /\ syncing' = [q \in Syncers |-> syncing'[q]] /\ syncing'[p] = next
      /\ \A q \in Syncers \ {p} : syncing'[q] = syncing[q]
  BY <1>1
<1>3. ASSUME NEW q \in Syncers PROVE SyncOK(q)'
  <2>1. CASE q = p
    <3>1. next = NoSync => next.phase = "idle"
      BY DEF NoSync
    <3>2. observed.length \in Nat
      BY <1>1 DEF ObservedType
    <3>3. next.phase = "appended" => next.cursor \in CursorType /\ Follows(observed, next.cursor)
      BY <3>1
    <3>4. next.phase = "prepared" => /\ next.cursor \in CursorType /\ next.at = observed.length
                                     /\ Carries(observed, next.facts, next.cursor)
      BY <3>1
    <3>5. syncing'[q].phase = "appended" =>
            syncing'[q].cursor \in CursorType /\ Follows(observed', syncing'[q].cursor)
      BY <1>2, <2>1, <3>3
    <3>6. syncing'[q].phase = "prepared" =>
            /\ syncing'[q].cursor \in CursorType
            /\ syncing'[q].at \in Nat /\ syncing'[q].at <= observed'.length
            /\ syncing'[q].at = observed'.length
                 => Carries(observed, syncing[q].facts, syncing[q].cursor)'
      <4>1. ASSUME next.phase = "prepared"
            PROVE  Carries(observed, syncing[q].facts, syncing[q].cursor)'
        <5>1. syncing'[q] = next
          BY <1>2, <2>1
        <5>2. Carries(observed, next.facts, next.cursor)
          BY <3>4, <4>1
        <5>. DEFINE n == WithFacts(observed, next.facts)
        <5>3. /\ n \in ObservedType /\ n.length > observed.length /\ Advances(observed, n) /\ CommitsOK(n)
              /\ Follows(n, next.cursor)
          BY <5>2 DEF Carries
        <5>4. WithFacts(observed, syncing[q].facts)' = n
          BY <5>1
        <5>. HIDE DEF n
        <5>5. \E m \in 0..github'.pushed : n.pull.commits = 1..m
          BY <5>3 DEF CommitsOK
        <5>6. QED
          BY <5>1, <5>3, <5>4, <5>5 DEF Carries, CommitsOK
      <4>2. QED
        BY <1>2, <2>1, <3>2, <3>4, <4>1
    <3>7. QED
      BY <3>5, <3>6 DEF SyncOK
  <2>2. CASE q # p
    <3>1. SyncOK(q)
      BY DEF RemoteInv
    <3>2. QED
      BY <1>1, <1>2, <2>2, <3>1, OthersWait
  <2>3. QED
    BY <2>1, <2>2
<1>4. GithubType' /\ CommitsOK(observed)'
  BY <1>1 DEF GithubType, CommitsOK
<1>5. Follows(observed, saved.cursor)'
  OBVIOUS
<1>6. QED
  BY <1>1, <1>2, <1>3, <1>4, <1>5 DEF RemoteInv

\* A step of one process that appends to the log.
LEMMA AppendsPreserves ==
  ASSUME RemoteInv, NEW p \in Syncers, NEW next, Proceeds(p, next), github' = github, saved' = saved,
         observed' \in ObservedType, Advances(observed, observed'), observed'.length > observed.length,
         CommitsOK(observed'),
         \/ next.phase = "connected"
         \/ next.phase = "appended" /\ next.cursor \in CursorType /\ Follows(observed', next.cursor)
  PROVE  RemoteInv'
<1>1. /\ syncing' = [syncing EXCEPT ![p] = next] /\ syncing = [q \in Syncers |-> syncing[q]]
      /\ GithubType /\ observed \in ObservedType
      /\ saved \in [config : BOOLEAN, cursor : CursorType] /\ Follows(observed, saved.cursor)
  BY DEF Proceeds, RemoteInv
<1>2. /\ syncing' = [q \in Syncers |-> syncing'[q]] /\ syncing'[p] = next
      /\ \A q \in Syncers \ {p} : syncing'[q] = syncing[q]
  BY <1>1
<1>3. ASSUME NEW q \in Syncers PROVE SyncOK(q)'
  <2>1. CASE q = p
    BY <1>2, <2>1 DEF SyncOK, Follows, KnownOids
  <2>2. CASE q # p
    <3>1. SyncOK(q)
      BY DEF RemoteInv
    <3>2. QED
      BY <1>1, <1>2, <2>2, <3>1, OthersKeepUp
  <2>3. QED
    BY <2>1, <2>2
<1>4. GithubType' /\ CommitsOK(observed)'
  BY <1>1 DEF GithubType, CommitsOK
<1>5. Follows(observed', saved.cursor)
  <2>1. saved.cursor \in CursorType
    BY <1>1
  <2>2. QED
    BY <1>1, <2>1, StillFollows
<1>6. Follows(observed, saved.cursor)'
  BY <1>5 DEF Follows, KnownOids
<1>7. QED
  BY <1>1, <1>2, <1>3, <1>4, <1>6 DEF RemoteInv

LEMMA AppendRemotePreserves ==
  ASSUME RemoteInv, NEW p \in Syncers, AppendRemote(p)
  PROVE  RemoteInv'
<1>. DEFINE next == [phase |-> "connected"]
            remote == TRUE
<1>1. /\ observed \in ObservedType /\ CommitsOK(observed) /\ observed.length \in Nat
      /\ observed.pull.updated \in Nat /\ observed.reviews \in Nat
  BY DEF RemoteInv, ObservedType
<1>2. observed' = [length |-> observed.length + 1, remote |-> remote, refs |-> observed.refs,
                   pull |-> observed.pull, reviews |-> observed.reviews, checks |-> observed.checks]
  BY <1>1 DEF AppendRemote, ObservedType
<1>3. Proceeds(p, next) /\ github' = github /\ saved' = saved /\ next.phase = "connected" /\ remote \in BOOLEAN
  BY DEF AppendRemote
<1>. HIDE DEF next, remote
<1>4. observed' \in ObservedType /\ observed'.length > observed.length
  BY <1>1, <1>2, <1>3 DEF ObservedType
<1>5. Advances(observed, observed')
  BY <1>1, <1>2 DEF Advances, KnownOids
<1>6. CommitsOK(observed')
  BY <1>1, <1>2 DEF CommitsOK
<1>7. QED
  BY <1>3, <1>4, <1>5, <1>6, AppendsPreserves

LEMMA AppendFactsPreserves ==
  ASSUME RemoteInv, NEW p \in Syncers, AppendFacts(p)
  PROVE  RemoteInv'
<1>. DEFINE next == ToSave(syncing[p].cursor)
            n == WithFacts(observed, syncing[p].facts)
<1>1. /\ n \in ObservedType /\ n.length > observed.length /\ Advances(observed, n) /\ CommitsOK(n)
      /\ Follows(n, syncing[p].cursor) /\ syncing[p].cursor \in CursorType
  BY DEF AppendFacts, RemoteInv, SyncOK, Carries
<1>2. Proceeds(p, next) /\ github' = github /\ saved' = saved /\ observed' = n
  BY DEF AppendFacts
<1>3. next.phase = "appended" /\ next.cursor = syncing[p].cursor
  BY DEF ToSave
<1>. HIDE DEF next, n
<1>4. QED
  BY <1>1, <1>2, <1>3, AppendsPreserves

LEMMA PrepareSyncPreserves ==
  ASSUME RemoteInv, NEW p \in Syncers, PrepareSync(p)
  PROVE  RemoteInv'
<1>. DEFINE facts == FactsOf(saved.cursor)
            cursor == CursorPull(CursorRef(saved.cursor))
            ready == [phase |-> "prepared", at |-> observed.length, facts |-> facts, cursor |-> cursor]
<1>1. /\ ValidPrepared(facts) /\ github' = github /\ observed' = observed /\ saved' = saved
      /\ Proceeds(p, IF facts = {} THEN ToSave(cursor) ELSE ready)
  BY DEF PrepareSync, FactsOf, Asked
<1>2. /\ GithubType /\ observed \in ObservedType /\ saved.cursor \in CursorType
      /\ Follows(observed, saved.cursor) /\ saved \in [config : BOOLEAN, cursor : CursorType]
      /\ observed.pull.updated \in Nat /\ observed.reviews \in Nat
  BY DEF RemoteInv, ObservedType
<1>3. CASE facts = {}
  <2>1. Advances(observed, observed) /\ Adds(facts, observed)
    BY <1>2, <1>3 DEF Advances, Adds, OfKind
  <2>2. cursor \in CursorType /\ Follows(observed, cursor)
    BY <1>1, <1>2, <2>1, CursorFollows
  <2>. DEFINE next == ToSave(cursor)
  <2>3. next.phase = "appended" /\ next.cursor = cursor /\ Proceeds(p, next)
    BY <1>1, <1>3 DEF ToSave
  <2>. HIDE DEF next, cursor, facts
  <2>4. QED
    BY <1>1, <1>2, <2>2, <2>3, ProceedsPreserves
<1>4. CASE facts # {}
  <2>. DEFINE n == WithFacts(observed, facts)
  <2>1. /\ n \in ObservedType /\ n.length > observed.length /\ Advances(observed, n)
        /\ CommitsOK(n) /\ Adds(facts, n)
    BY <1>1, <1>2, <1>4, FactsAdvance
  <2>2. cursor \in CursorType /\ Follows(n, cursor)
    BY <1>1, <1>2, <2>1, CursorFollows
  <2>3. Carries(observed, facts, cursor)
    BY <2>1, <2>2 DEF Carries
  <2>4. /\ ready.phase = "prepared" /\ ready.cursor = cursor /\ ready.at = observed.length
        /\ ready.facts = facts /\ Proceeds(p, ready)
    BY <1>1, <1>4
  <2>. HIDE DEF n, ready, cursor, facts
  <2>5. QED
    BY <1>1, <1>2, <2>2, <2>3, <2>4, ProceedsPreserves
<1>5. QED
  BY <1>3, <1>4

LEMMA CommitsPreserve ==
  ASSUME RemoteInv, NEW p \in Syncers, CommitSync(p) \/ CommitConnect(p)
  PROVE  RemoteInv'
<1>1. /\ saved \in [config : BOOLEAN, cursor : CursorType] /\ Follows(observed, saved.cursor)
      /\ syncing[p].phase = "appended" =>
           syncing[p].cursor \in CursorType /\ Follows(observed, syncing[p].cursor)
  BY DEF RemoteInv, SyncOK
<1>2. Proceeds(p, NoSync) /\ github' = github /\ observed' = observed
  BY DEF CommitSync, CommitConnect
<1>3. saved' \in [config : BOOLEAN, cursor : CursorType] /\ Follows(observed, saved'.cursor)
  <2>1. CASE CommitSync(p)
    <3>1. /\ saved' = [config |-> saved.config, cursor |-> syncing[p].cursor]
          /\ syncing[p].cursor \in CursorType /\ Follows(observed, syncing[p].cursor)
      BY <1>1, <2>1 DEF CommitSync
    <3>2. QED
      BY <1>1, <3>1
  <2>2. CASE CommitConnect(p)
    <3>. DEFINE config == TRUE
    <3>1. saved' = [config |-> config, cursor |-> saved.cursor] /\ config \in BOOLEAN
      BY <1>1, <2>2 DEF CommitConnect
    <3>. HIDE DEF config
    <3>2. QED
      BY <1>1, <3>1
  <2>3. QED
    BY <2>1, <2>2
<1>4. QED
  BY <1>2, <1>3, ProceedsPreserves

LEMMA OtherProceeds ==
  ASSUME RemoteInv, NEW p \in Syncers, PrepareConnect(p) \/ Conflicts(p) \/ SyncFails(p)
  PROVE  RemoteInv'
<1>1. /\ saved \in [config : BOOLEAN, cursor : CursorType] /\ Follows(observed, saved.cursor)
  BY DEF RemoteInv
<1>2. github' = github /\ observed' = observed /\ saved' = saved
  BY DEF PrepareConnect, Conflicts, SyncFails
<1>3. PICK next : Proceeds(p, next) /\ (next = NoSync \/ next.phase = "connecting")
  BY DEF PrepareConnect, Conflicts, AfterConflict, SyncFails
<1>4. QED
  BY <1>1, <1>2, <1>3, ProceedsPreserves

LEMMA RemoveCursorPreserves ==
  ASSUME RemoteInv, RemoveCursor
  PROVE  RemoteInv'
<1>1. /\ saved \in [config : BOOLEAN, cursor : CursorType] /\ observed \in ObservedType
      /\ github' = github /\ observed' = observed /\ syncing' = syncing
      /\ GithubType /\ github.pushed \in Nat /\ CommitsOK(observed)
      /\ syncing = [q \in Syncers |-> syncing[q]]
  BY DEF RemoteInv, RemoveCursor, GithubType
<1>2. NoCursor \in CursorType /\ Follows(observed, NoCursor)
  BY <1>1, EmptyCursor
<1>3. saved' = [config |-> saved.config, cursor |-> NoCursor]
  BY <1>1 DEF RemoveCursor
<1>4. saved' \in [config : BOOLEAN, cursor : CursorType] /\ Follows(observed', saved'.cursor)
  BY <1>1, <1>2, <1>3
<1>5. ASSUME NEW q \in Syncers PROVE SyncOK(q)'
  BY <1>1, OthersWait DEF RemoteInv
<1>6. GithubType' /\ CommitsOK(observed)'
  BY <1>1 DEF GithubType, CommitsOK
<1>7. QED
  BY <1>1, <1>4, <1>5, <1>6 DEF RemoteInv

LEMMA GithubPreserves ==
  ASSUME RemoteInv, RefChanges \/ PullChanges \/ \E k \in Pushes : CheckCompletes(k)
  PROVE  RemoteInv'
<1>1. /\ GithubType' /\ github'.pushed >= github.pushed
      /\ observed' = observed /\ saved' = saved /\ syncing' = syncing
  BY GithubMoves DEF RemoteInv
<1>2. github.pushed \in Nat /\ github'.pushed \in Nat
  BY <1>1 DEF RemoteInv, GithubType
<1>3. ASSUME NEW q \in Syncers PROVE SyncOK(q)'
  BY <1>1, <1>2, OthersWait DEF RemoteInv
<1>4. CommitsOK(observed)'
  BY <1>1, <1>2 DEF RemoteInv, CommitsOK
<1>5. Follows(observed, saved.cursor)'
  BY <1>1 DEF RemoteInv
<1>6. QED
  BY <1>1, <1>3, <1>4, <1>5 DEF RemoteInv

LEMMA RemoteStep == RemoteInv /\ [RemoteNext]_remoteVars => RemoteInv'
<1>. SUFFICES ASSUME RemoteInv, [RemoteNext]_remoteVars PROVE RemoteInv'
  OBVIOUS
<1>1. CASE UNCHANGED remoteVars
  <2>1. /\ saved \in [config : BOOLEAN, cursor : CursorType]
        /\ github' = github /\ observed' = observed /\ syncing' = syncing /\ saved' = saved
        /\ github.pushed \in Nat
    BY <1>1 DEF RemoteInv, remoteVars, GithubType
  <2>2. ASSUME NEW q \in Syncers PROVE SyncOK(q)'
    BY <2>1, OthersWait DEF RemoteInv
  <2>3. GithubType' /\ CommitsOK(observed)' /\ Follows(observed, saved.cursor)'
    BY <2>1 DEF RemoteInv, GithubType, CommitsOK
  <2>4. QED
    BY <2>1, <2>2, <2>3 DEF RemoteInv
<1>2. QED
  BY <1>1, GithubPreserves, RemoveCursorPreserves, OtherProceeds, CommitsPreserve, PrepareSyncPreserves,
     AppendFactsPreserves, AppendRemotePreserves DEF RemoteNext

\* Whatever the saved cursor spares GitHub from repeating is in the log (Sync, CommitSync),
\* for any number of processes that sync, fail and are overtaken.
THEOREM CursorIsNeverAhead == RemoteSpec => []CursorFollowsLog
<1>1. RemoteInv => CursorFollowsLog
  BY DEF RemoteInv, CursorFollowsLog, Follows, KnownOids
<1>2. QED
  BY <1>1, RemoteInitInv, RemoteStep, PTL DEF RemoteSpec
-----------------------------------------------------------------------------
(***************************************************************************)
(* The return.  An approval that is not open is decided by an owner who    *)
(* did not ask for it, and never changes again.                            *)
(***************************************************************************)
Hashes == [base : Bases, entries : SUBSET Entries]
Approvals == [hash : Hashes, requester : People,
              status : {"requested", "approved", "rejected", "invalidated"}, decider : People]

ApprovalsOK ==
  /\ approvals \in Seq(Approvals)
  /\ \A id \in 1..Len(approvals) :
       approvals[id].status # "requested" =>
         approvals[id].decider \in Owners \ {approvals[id].requester}

SignedOK ==
  \A s \in signed : s.approval # 0 =>
    /\ s.approval \in 1..Len(approvals)
    /\ approvals[s.approval].hash = [base |-> s.base, entries |-> s.entries]
    /\ approvals[s.approval].status = "approved"

ReturnInv == ApprovalsOK /\ SignedOK
-----------------------------------------------------------------------------
LEMMA RequestKeepsReturns ==
  ASSUME ReturnInv, NEW person \in People, NEW base \in Bases,
         NEW changes \in SUBSET Entries, NEW chosen \in SUBSET Entries,
         RequestApproval(person, base, changes, chosen)
  PROVE  ReturnInv'
<1>. DEFINE new == [hash |-> ReturnApprovalHash(base, changes, chosen), requester |-> person,
                    status |-> "requested", decider |-> person]
<1>1. new \in Approvals /\ new.status = "requested"
  BY DEF Approvals, Hashes, ReturnApprovalHash, ApprovedChanges
<1>2. approvals' = Append(approvals, new) /\ signed' = signed /\ approvals \in Seq(Approvals)
  BY DEF RequestApproval, ReturnInv, ApprovalsOK
<1>. HIDE DEF new
<1>3. /\ approvals' \in Seq(Approvals) /\ Len(approvals') = Len(approvals) + 1
      /\ \A id \in 1..Len(approvals) : approvals'[id] = approvals[id]
      /\ approvals'[Len(approvals) + 1] = new
  BY <1>1, <1>2
<1>4. ApprovalsOK'
  BY <1>1, <1>2, <1>3 DEF ReturnInv, ApprovalsOK
<1>5. SignedOK'
  BY <1>2, <1>3 DEF ReturnInv, SignedOK
<1>6. QED
  BY <1>4, <1>5 DEF ReturnInv

LEMMA DecidedApproval ==
  ASSUME NEW a \in Approvals, NEW status, NEW person,
         NEW b, b = [a EXCEPT !.status = status, !.decider = person]
  PROVE  b = [hash |-> a.hash, requester |-> a.requester, status |-> status, decider |-> person]
BY DEF Approvals

LEMMA DecisionKeepsReturns ==
  ASSUME ReturnInv, NEW person \in People, NEW id \in DOMAIN approvals, NEW hash,
         NEW decision \in {"approved", "rejected"}, DecideApproval(person, id, hash, decision)
  PROVE  ReturnInv'
<1>. DEFINE status == IF hash = approvals[id].hash THEN decision ELSE "invalidated"
            decided == [hash |-> approvals[id].hash, requester |-> approvals[id].requester,
                        status |-> status, decider |-> person]
<1>1. /\ approvals \in Seq(Approvals) /\ id \in 1..Len(approvals) /\ approvals[id] \in Approvals
      /\ signed' = signed /\ approvals[id].status = "requested"
      /\ person \in Owners \ {approvals[id].requester}
  BY DEF DecideApproval, ReturnInv, ApprovalsOK
<1>2. status \in {"approved", "rejected", "invalidated"}
  OBVIOUS
<1>3. /\ decided \in Approvals /\ decided.status = status /\ decided.decider = person
      /\ decided.requester = approvals[id].requester
  BY <1>1, <1>2 DEF Approvals
<1>4. approvals' = [approvals EXCEPT ![id] = decided]
  <2>1. approvals' = [approvals EXCEPT ![id].status = status, ![id].decider = person]
    BY DEF DecideApproval
  <2>. HIDE DEF status
  <2>2. [approvals[id] EXCEPT !.status = status, !.decider = person] = decided
    BY <1>1, DecidedApproval
  <2>. HIDE DEF decided
  <2>3. approvals' = [approvals EXCEPT ![id] =
                        [approvals[id] EXCEPT !.status = status, !.decider = person]]
    <3>. DEFINE half == [approvals EXCEPT ![id].status = status]
    <3>1. half[id] = [approvals[id] EXCEPT !.status = status]
      BY <1>1
    <3>2. approvals' = [half EXCEPT ![id].decider = person]
      BY <2>1
    <3>3. approvals' = [half EXCEPT ![id] = [half[id] EXCEPT !.decider = person]]
      BY <3>2
    <3>4. QED
      BY <1>1, <3>1, <3>3
  <2>4. QED
    BY <1>1, <2>2, <2>3
<1>. HIDE DEF decided, status
<1>5. /\ approvals' \in Seq(Approvals) /\ Len(approvals') = Len(approvals)
      /\ \A k \in 1..Len(approvals) : approvals'[k] = IF k = id THEN decided ELSE approvals[k]
  BY <1>1, <1>3, <1>4
<1>6. ApprovalsOK'
  BY <1>1, <1>3, <1>5 DEF ReturnInv, ApprovalsOK
<1>7. SignedOK'
  BY <1>1, <1>5 DEF ReturnInv, SignedOK
<1>8. QED
  BY <1>6, <1>7 DEF ReturnInv

LEMMA ExportKeepsReturns ==
  ASSUME ReturnInv, NEW base, NEW entries, NEW approval, ExportBytes(base, entries, approval),
         approval # 0 => approval \in DOMAIN approvals
                           /\ VerifyApproval(approval, [base |-> base, entries |-> entries])
  PROVE  ReturnInv'
<1>. DEFINE archive == [base |-> base, entries |-> entries, approval |-> approval]
<1>1. approvals' = approvals /\ signed' = signed \cup {archive} /\ approvals \in Seq(Approvals)
  BY DEF ExportBytes, ReturnInv, ApprovalsOK
<1>2. archive.base = base /\ archive.entries = entries /\ archive.approval = approval
  OBVIOUS
<1>. HIDE DEF archive
<1>3. SignedOK'
  BY <1>1, <1>2 DEF ReturnInv, SignedOK, VerifyApproval
<1>4. QED
  BY <1>1, <1>3 DEF ReturnInv, ApprovalsOK

LEMMA ReturnStep == ReturnInv /\ [TransferNext]_transferVars => ReturnInv'
<1>. SUFFICES ASSUME ReturnInv, [TransferNext]_transferVars PROVE ReturnInv'
  OBVIOUS
<1>1. ASSUME UNCHANGED returnVars PROVE ReturnInv'
  BY <1>1 DEF returnVars, ReturnInv, ApprovalsOK, SignedOK
<1>2. CASE ImportNext
  <2>1. UNCHANGED returnVars
    BY <1>2 DEF ImportNext, PreviewImport, ApplyImport, CommitImport, EndImport, Drift,
       BootstrapRuntimeTopology, BindRuntimeTopology, ApproveGoalChange, Materialize, Configure,
       Open, Tick
  <2>2. QED
    BY <1>1, <2>1
<1>3. ASSUME NEW base \in Bases, NEW changes \in SUBSET Entries, Export(base, changes)
      PROVE  ReturnInv'
  BY <1>3, ExportKeepsReturns DEF Export
<1>4. ASSUME NEW base \in Bases, NEW changes \in SUBSET Entries, NEW chosen \in SUBSET Entries,
             NEW id \in DOMAIN approvals, BuildReturn(id, base, changes, chosen)
      PROVE  ReturnInv'
  BY <1>4, ExportKeepsReturns DEF BuildReturn, ReturnApprovalHash
<1>5. CASE ReturnNext
  BY <1>3, <1>4, <1>5, RequestKeepsReturns, DecisionKeepsReturns DEF ReturnNext
<1>6. QED
  BY <1>1, <1>2, <1>5 DEF TransferNext, transferVars, returnVars

\* A return that is signed for an approval (BuildReturn, VerifyApproval) holds the base
\* and all the entries, and no other, of one that a human owner has approved who did
\* not ask for it, whatever is requested, decided or exported meanwhile.
THEOREM ReturnIsAsApproved == TransferSpec => []ReturnAsApproved
<1>1. TransferInit => ReturnInv
  BY DEF TransferInit, ReturnInv, ApprovalsOK, SignedOK
<1>2. ReturnInv => ReturnAsApproved
  BY DEF ReturnInv, ApprovalsOK, SignedOK, ReturnAsApproved
<1>3. QED
  BY <1>1, <1>2, ReturnStep, PTL DEF TransferSpec
-----------------------------------------------------------------------------
(***************************************************************************)
(* The import.  What the server loaded is in step with the zone but for    *)
(* what has drifted, and an import that runs is of what the server loaded. *)
(***************************************************************************)
Binds == [agent : Agents, revision : Nat, principal : Principals]
Previews == [archive : Archives, binds : Seq(Binds)]
Writes == [bind : Binds, fits : BOOLEAN, drifted : BOOLEAN]
Imports == [preview : Previews, at : Nat, written : Seq(Writes), ended : BOOLEAN]
Zones == [goal : Nat, bound : [Agents -> Seq(Principals)], agents : SUBSET Agents, ok : BOOLEAN]

ImportType ==
  /\ zone \in Zones /\ manifest \in Nat /\ clock \in Nat
  /\ setting \in Settings
  /\ server \in [config : Settings, writerGoal : Nat, previews : SUBSET Previews]
  /\ confirmed \in Seq(Imports)

\* The configuration has the current revision of an agent that has not drifted, and an
\* agent that has a binding is registered.
InStep ==
  /\ "goal" \notin drifted => zone.goal = server.writerGoal
  /\ \A a \in Agents : zone.bound[a] # <<>> => a \in zone.agents
  /\ \A a \in DOMAIN server.config.binds \ drifted :
       server.config.binds[a].revision = Len(zone.bound[a])

\* What a preview shows is what the loaded configuration still asks for.
Current(preview) ==
  /\ ToSet(preview.archive.agents) \subseteq DOMAIN server.config.binds
  /\ preview = PreviewOf(preview.archive)

ImportOK(c) ==
  /\ c.at < c.preview.archive.expires
  /\ Len(c.written) <= Len(c.preview.binds)
  /\ \A j \in 1..Len(c.written) :
       c.written[j].bind = c.preview.binds[j] /\ (c.written[j].fits \/ c.written[j].drifted)
  /\ ~c.ended => Current(c.preview)

ImportInv == ImportType /\ InStep /\ \A k \in 1..Len(confirmed) : ImportOK(confirmed[k])
-----------------------------------------------------------------------------
LEMMA RebindsOfArchive ==
  ASSUME ImportType, NEW archive \in Archives,
         ToSet(archive.agents) \subseteq DOMAIN server.config.binds
  PROVE  /\ RebindRequired(archive) \in Seq(Binds)
         /\ Len(RebindRequired(archive)) = Len(archive.agents)
         /\ \A k \in 1..Len(archive.agents) :
              LET a == archive.agents[k]
              IN  /\ a \in DOMAIN server.config.binds /\ a \in Agents
                  /\ server.config.binds[a].revision \in Nat \ {0}
                  /\ RebindRequired(archive)[k].agent = a
                  /\ RebindRequired(archive)[k].revision = server.config.binds[a].revision + 1
<1>. DEFINE agents == archive.agents
            binds == server.config.binds
<1>1. agents \in Seq(Agents) /\ server.config \in Settings
  BY ArchivesAssumption DEF ImportType
<1>2. \A k \in 1..Len(agents) : agents[k] \in DOMAIN binds
  BY <1>1 DEF ToSet
<1>3. \A a \in DOMAIN binds : /\ a \in Agents /\ binds[a].revision \in Nat \ {0}
                             /\ binds[a].principal \in Principals
  BY <1>1, SettingsAssumption
<1>4. RebindRequired(archive) =
        [k \in 1..Len(agents) |-> [agent |-> agents[k], revision |-> binds[agents[k]].revision + 1,
                                   principal |-> binds[agents[k]].principal]]
  BY <1>1 DEF RebindRequired
<1>. HIDE DEF agents, binds
<1>5. \A k \in 1..Len(agents) :
        [agent |-> agents[k], revision |-> binds[agents[k]].revision + 1,
         principal |-> binds[agents[k]].principal] \in Binds
  BY <1>2, <1>3 DEF Binds
<1>6. RebindRequired(archive) \in [1..Len(agents) -> Binds] /\ Len(agents) \in Nat
  BY <1>1, <1>4, <1>5
<1>7. RebindRequired(archive) \in Seq(Binds) /\ Len(RebindRequired(archive)) = Len(agents)
  BY <1>6
<1>8. ASSUME NEW k \in 1..Len(agents)
      PROVE  LET a == agents[k]
             IN  /\ a \in DOMAIN binds /\ a \in Agents /\ binds[a].revision \in Nat \ {0}
                 /\ RebindRequired(archive)[k].agent = a
                 /\ RebindRequired(archive)[k].revision = binds[a].revision + 1
  <2>1. RebindRequired(archive)[k] =
          [agent |-> agents[k], revision |-> binds[agents[k]].revision + 1,
           principal |-> binds[agents[k]].principal]
    BY <1>4
  <2>2. agents[k] \in DOMAIN binds
    BY <1>2
  <2>3. QED
    BY <1>3, <2>1, <2>2
<1>9. QED
  BY <1>7, <1>8 DEF agents, binds

\* An import stays as it was when it, and what is loaded, do.
LEMMA SameImport ==
  ASSUME server'.config = server.config, NEW c, ImportOK(c)
  PROVE  ImportOK(c)'
<1>1. \A archive : RebindRequired(archive)' = RebindRequired(archive)
  BY DEF RebindRequired
<1>2. Current(c.preview)' <=> Current(c.preview)
  <2>1. PreviewOf(c.preview.archive)' = PreviewOf(c.preview.archive)
    BY <1>1 DEF PreviewOf
  <2>2. QED
    BY <2>1 DEF Current
<1>3. QED
  BY <1>2 DEF ImportOK

LEMMA ZoneKeepsImports ==
  ASSUME ImportInv, ImportType', InStep', server'.config = server.config, confirmed' = confirmed
  PROVE  ImportInv'
<1>1. \A k \in 1..Len(confirmed) : ImportOK(confirmed[k])'
  BY SameImport DEF ImportInv
<1>2. QED
  BY <1>1 DEF ImportInv

LEMMA PreviewKeepsImports ==
  ASSUME ImportInv, NEW archive \in Archives, PreviewImport(archive)
  PROVE  ImportInv'
<1>. DEFINE previews == server.previews \cup {PreviewOf(archive)}
<1>1. RebindRequired(archive) \in Seq(Binds)
  BY RebindsOfArchive DEF ImportInv, PreviewImport, Importable
<1>2. PreviewOf(archive) \in Previews
  BY <1>1 DEF PreviewOf, Previews
<1>3. previews \in SUBSET Previews
  BY <1>2 DEF ImportInv, ImportType
<1>4. server' = [server EXCEPT !.previews = previews]
  BY DEF PreviewImport
<1>. HIDE DEF previews
<1>5. /\ server' \in [config : Settings, writerGoal : Nat, previews : SUBSET Previews]
      /\ server'.config = server.config /\ server'.writerGoal = server.writerGoal
  BY <1>3, <1>4 DEF ImportInv, ImportType
<1>6. UNCHANGED <<zone, manifest, setting, clock, confirmed, drifted>>
  BY DEF PreviewImport, zoneVars
<1>7. QED
  BY <1>5, <1>6, ZoneKeepsImports DEF ImportInv, ImportType, InStep

LEMMA ApplyKeepsImports ==
  ASSUME ImportInv, NEW person \in People, NEW preview \in server.previews,
         ApplyImport(person, preview)
  PROVE  ImportInv'
<1>. DEFINE running == FALSE
            new == [preview |-> preview, at |-> clock, written |-> <<>>, ended |-> running]
<1>1. running \in BOOLEAN /\ (~running)
  OBVIOUS
<1>2. /\ preview \in Previews /\ clock \in Nat /\ confirmed \in Seq(Imports)
      /\ clock < preview.archive.expires /\ Current(preview)
      /\ confirmed' = Append(confirmed, new)
      /\ UNCHANGED <<zone, manifest, setting, clock, server, drifted>>
  BY DEF ApplyImport, Importable, ImportInv, ImportType, Current, zoneVars
<1>. HIDE DEF running
<1>3. new \in Imports
  BY <1>1, <1>2 DEF Imports
<1>4. ImportOK(new)
  <2>1. Len(new.written) = 0 /\ Len(preview.binds) \in Nat
    BY <1>2 DEF Previews
  <2>2. QED
    BY <1>2, <2>1 DEF ImportOK
<1>. HIDE DEF new
<1>5. /\ confirmed' \in Seq(Imports) /\ Len(confirmed') = Len(confirmed) + 1
      /\ \A k \in 1..Len(confirmed) : confirmed'[k] = confirmed[k]
      /\ confirmed'[Len(confirmed) + 1] = new
  BY <1>2, <1>3
<1>6. ASSUME NEW k \in 1..Len(confirmed') PROVE ImportOK(confirmed[k])'
  <2>1. ImportOK(confirmed'[k])
    BY <1>2, <1>4, <1>5 DEF ImportInv
  <2>2. QED
    BY <1>2, <2>1, SameImport
<1>7. QED
  BY <1>2, <1>5, <1>6 DEF ImportInv, ImportType, InStep

\* What the two events of one agent make of the zone.
LEMMA BoundZone ==
  ASSUME zone \in Zones, NEW bind \in Binds, NEW z, z = ApplyRuntimeBound(bind)
  PROVE  /\ z \in Zones /\ z.goal = zone.goal /\ z.agents = zone.agents
         /\ \A a \in Agents \ {bind.agent} : z.bound[a] = zone.bound[a]
         /\ z.bound[bind.agent] = zone.bound[bind.agent] \/ bind.agent \in zone.agents
<1>. DEFINE a == bind.agent
            spoiled == FALSE
            bound == [zone.bound EXCEPT ![a] = Append(zone.bound[a], bind.principal)]
<1>1. /\ a \in Agents /\ bind.principal \in Principals /\ spoiled \in BOOLEAN
      /\ zone.bound \in [Agents -> Seq(Principals)] /\ zone.goal \in Nat /\ zone.ok \in BOOLEAN
      /\ zone.agents \in SUBSET Agents
  BY DEF Binds, Zones
<1>2. /\ bound \in [Agents -> Seq(Principals)]
      /\ \A x \in Agents \ {a} : bound[x] = zone.bound[x]
  <2>1. Append(zone.bound[a], bind.principal) \in Seq(Principals)
    BY <1>1
  <2>2. QED
    BY <1>1, <2>1
<1>3. CASE zone.ok /\ Reducible(bind)
  <2>1. z = [zone EXCEPT !.bound = bound]
    BY <1>3 DEF ApplyRuntimeBound
  <2>. HIDE DEF bound
  <2>2. z = [goal |-> zone.goal, bound |-> bound, agents |-> zone.agents, ok |-> zone.ok]
    BY <2>1 DEF Zones
  <2>3. QED
    BY <1>1, <1>2, <1>3, <2>2 DEF Zones, Reducible
<1>4. CASE ~(zone.ok /\ Reducible(bind))
  <2>1. z = [zone EXCEPT !.ok = spoiled]
    BY <1>4 DEF ApplyRuntimeBound
  <2>. HIDE DEF spoiled
  <2>2. z = [goal |-> zone.goal, bound |-> zone.bound, agents |-> zone.agents, ok |-> spoiled]
    BY <2>1 DEF Zones
  <2>3. QED
    BY <1>1, <2>2 DEF Zones
<1>5. QED
  BY <1>3, <1>4

LEMMA ImportWith ==
  ASSUME NEW c \in Imports, NEW written, NEW b, b = [c EXCEPT !.written = written]
  PROVE  b = [preview |-> c.preview, at |-> c.at, written |-> written, ended |-> c.ended]
BY DEF Imports

LEMMA CommitKeepsImports ==
  ASSUME ImportInv, NEW k \in DOMAIN confirmed, CommitImport(k)
  PROVE  ImportInv'
<1>. DEFINE c == confirmed[k]
            done == Len(c.written)
            bind == c.preview.binds[done + 1]
            fits == zone.ok => Reducible(bind)
            far == {bind.agent, "goal"} \cap drifted # {}
            write == [bind |-> bind, fits |-> fits, drifted |-> far]
            written == Append(c.written, write)
            next == [preview |-> c.preview, at |-> c.at, written |-> written, ended |-> c.ended]
<1>1. /\ confirmed \in Seq(Imports) /\ k \in 1..Len(confirmed) /\ c \in Imports
      /\ c.written \in Seq(Writes) /\ done \in Nat
      /\ c.preview \in Previews /\ c.preview.binds \in Seq(Binds)
      /\ zone \in Zones
  <2>1. confirmed \in Seq(Imports) /\ k \in 1..Len(confirmed) /\ zone \in Zones
    BY DEF ImportInv, ImportType
  <2>2. c \in Imports
    BY <2>1
  <2>. HIDE DEF c
  <2>3. c.written \in Seq(Writes) /\ c.preview \in Previews
    BY <2>2 DEF Imports
  <2>4. c.preview.binds \in Seq(Binds)
    BY <2>3 DEF Previews
  <2>5. done \in Nat
    BY <2>3
  <2>6. QED
    BY <2>1, <2>2, <2>3, <2>4, <2>5
<1>2. ~c.ended /\ done < Len(c.preview.binds) /\ ImportOK(c) /\ Current(c.preview)
  BY <1>1 DEF CommitImport, ImportInv, ImportOK
<1>3. /\ zone' = ApplyRuntimeBound(bind) /\ drifted' = drifted \cup {bind.agent}
      /\ UNCHANGED <<manifest, setting, clock, server>>
      /\ confirmed' = [confirmed EXCEPT ![k].written = written]
  BY <1>1 DEF CommitImport
<1>4. bind \in Binds /\ done + 1 \in 1..Len(c.preview.binds)
  BY <1>1, <1>2
<1>5. fits \in BOOLEAN /\ far \in BOOLEAN
  OBVIOUS
<1>6. fits \/ far
  <2>. SUFFICES ASSUME bind.agent \notin drifted, "goal" \notin drifted, zone.ok
                PROVE  Reducible(bind)
    OBVIOUS
  <2>. DEFINE archive == c.preview.archive
              a == archive.agents[done + 1]
  <2>1. archive \in Archives /\ ToSet(archive.agents) \subseteq DOMAIN server.config.binds
        /\ c.preview.binds = RebindRequired(archive)
    BY <1>1, <1>2 DEF Current, PreviewOf, Previews
  <2>2. /\ a \in DOMAIN server.config.binds /\ a \in Agents
        /\ server.config.binds[a].revision \in Nat \ {0}
        /\ bind.agent = a /\ bind.revision = server.config.binds[a].revision + 1
    <3>. DEFINE n == done + 1
    <3>1. /\ n \in 1..Len(RebindRequired(archive)) /\ bind = RebindRequired(archive)[n]
          /\ a = archive.agents[n] /\ ImportType
      BY <1>4, <2>1 DEF ImportInv
    <3>. HIDE DEF n, archive, bind, a
    <3>2. n \in 1..Len(archive.agents)
      BY <2>1, <3>1, RebindsOfArchive
    <3>3. QED
      BY <2>1, <3>1, <3>2, RebindsOfArchive
  <2>. HIDE DEF a, bind
  <2>3. /\ server.config.binds[a].revision = Len(zone.bound[a])
        /\ zone.goal = server.writerGoal
        /\ zone.bound[a] # <<>> => a \in zone.agents
    BY <2>2 DEF ImportInv, InStep
  <2>4. zone.bound[a] # <<>>
    BY <2>2, <2>3
  <2>5. QED
    BY <2>2, <2>3, <2>4 DEF Reducible
<1>. HIDE DEF fits, far
<1>7. write \in Writes /\ write.bind = bind /\ write.fits = fits /\ write.drifted = far
  BY <1>4, <1>5 DEF Writes
<1>. HIDE DEF bind, write
<1>8. /\ written \in Seq(Writes) /\ Len(written) = done + 1 /\ written[done + 1] = write
      /\ \A j \in 1..done : written[j] = c.written[j]
  BY <1>1, <1>7
<1>. HIDE DEF written
<1>9. next \in Imports
  BY <1>1, <1>8 DEF Imports
<1>10. ImportOK(next)
  <2>. HIDE DEF done
  <2>1. Len(c.preview.binds) \in Nat
    BY <1>1
  <2>2. /\ c.at < c.preview.archive.expires /\ Len(c.written) = done
        /\ \A j \in 1..Len(c.written) : c.written[j].bind = c.preview.binds[j]
                                    /\ (c.written[j].fits \/ c.written[j].drifted)
    BY <1>2 DEF ImportOK, done
  <2>3. ASSUME NEW j \in 1..Len(written)
        PROVE  written[j].bind = c.preview.binds[j] /\ (written[j].fits \/ written[j].drifted)
    <3>1. CASE j = done + 1
      <4>1. bind = c.preview.binds[done + 1]
        BY DEF bind
      <4>2. QED
        BY <1>6, <1>7, <1>8, <3>1, <4>1
    <3>2. CASE j \in 1..done
      BY <1>8, <2>2, <3>2
    <3>3. QED
      BY <1>1, <1>8, <3>1, <3>2
  <2>. DEFINE n == next
  <2>4. n.at = c.at /\ n.preview = c.preview /\ n.written = written /\ n.ended = c.ended
    OBVIOUS
  <2>. HIDE DEF n
  <2>5. ImportOK(n)
    BY <1>1, <1>2, <1>8, <2>1, <2>2, <2>3, <2>4 DEF ImportOK
  <2>6. QED
    BY <2>5 DEF n
<1>11. confirmed' = [confirmed EXCEPT ![k] = next]
  <2>1. confirmed' = [confirmed EXCEPT ![k] = [c EXCEPT !.written = written]]
    BY <1>1, <1>3
  <2>2. \A b : b = [c EXCEPT !.written = written] => b = next
    BY <1>1, ImportWith
  <2>. HIDE DEF next, c
  <2>3. QED
    BY <2>1, <2>2
<1>. HIDE DEF next
<1>12. /\ confirmed' \in Seq(Imports) /\ Len(confirmed') = Len(confirmed)
       /\ \A j \in 1..Len(confirmed) : confirmed'[j] = IF j = k THEN next ELSE confirmed[j]
  BY <1>1, <1>9, <1>11
<1>13. ASSUME NEW j \in 1..Len(confirmed') PROVE ImportOK(confirmed[j])'
  <2>1. ImportOK(confirmed'[j])
    BY <1>10, <1>12 DEF ImportInv
  <2>2. QED
    BY <1>3, <2>1, SameImport
<1>14. zone' \in Zones /\ InStep'
  <2>. DEFINE z == zone'
  <2>1. /\ z \in Zones /\ z.goal = zone.goal /\ z.agents = zone.agents
        /\ \A a \in Agents \ {bind.agent} : z.bound[a] = zone.bound[a]
        /\ z.bound[bind.agent] = zone.bound[bind.agent] \/ bind.agent \in zone.agents
    BY <1>1, <1>3, <1>4, BoundZone
  <2>2. server.config \in Settings /\ \A a \in DOMAIN server.config.binds : a \in Agents
    BY SettingsAssumption DEF ImportInv, ImportType
  <2>3. QED
    BY <1>3, <2>1, <2>2 DEF ImportInv, InStep
<1>15. QED
  BY <1>3, <1>12, <1>13, <1>14 DEF ImportInv, ImportType

LEMMA EndedImport ==
  ASSUME NEW c \in Imports, NEW next, next = [c EXCEPT !.ended = TRUE], ImportOK(c)
  PROVE  next \in Imports /\ ImportOK(next) /\ ImportOK(next)'
<1>. DEFINE over == TRUE
<1>1. over \in BOOLEAN /\ next = [c EXCEPT !.ended = over] /\ over
  OBVIOUS
<1>. HIDE DEF over
<1>2. next = [preview |-> c.preview, at |-> c.at, written |-> c.written, ended |-> over]
  BY <1>1 DEF Imports
<1>3. next \in Imports
  BY <1>1, <1>2 DEF Imports
<1>4. QED
  BY <1>1, <1>2, <1>3 DEF ImportOK

LEMMA EndKeepsImports ==
  ASSUME ImportInv, NEW k \in DOMAIN confirmed, EndImport(k)
  PROVE  ImportInv'
<1>. DEFINE next == [confirmed[k] EXCEPT !.ended = TRUE]
<1>1. /\ confirmed \in Seq(Imports) /\ k \in 1..Len(confirmed) /\ confirmed[k] \in Imports
      /\ confirmed' = [confirmed EXCEPT ![k] = next]
      /\ UNCHANGED <<zone, manifest, setting, clock, server, drifted>>
  BY DEF EndImport, ImportInv, ImportType, zoneVars
<1>2. next \in Imports /\ ImportOK(next)
  BY <1>1, EndedImport DEF ImportInv
<1>. HIDE DEF next
<1>3. /\ confirmed' \in Seq(Imports) /\ Len(confirmed') = Len(confirmed)
      /\ \A j \in 1..Len(confirmed) : confirmed'[j] = IF j = k THEN next ELSE confirmed[j]
  BY <1>1, <1>2
<1>4. ASSUME NEW j \in 1..Len(confirmed') PROVE ImportOK(confirmed[j])'
  <2>1. ImportOK(confirmed'[j])
    BY <1>2, <1>3 DEF ImportInv
  <2>2. QED
    BY <1>1, <2>1, SameImport
<1>5. QED
  BY <1>1, <1>3, <1>4 DEF ImportInv, ImportType, InStep

LEMMA OpenKeepsImports ==
  ASSUME ImportInv, Open
  PROVE  ImportInv'
<1>1. /\ confirmed \in Seq(Imports) /\ setting \in Settings /\ manifest \in Nat
      /\ server' = [config |-> setting, writerGoal |-> manifest, previews |-> {}]
      /\ drifted' = OutOfStep /\ UNCHANGED <<zone, manifest, setting, clock>>
      /\ confirmed' = [k \in 1..Len(confirmed) |-> [confirmed[k] EXCEPT !.ended = TRUE]]
  BY DEF Open, Loaded, ImportInv, ImportType, zoneVars
<1>2. ASSUME NEW k \in 1..Len(confirmed)
      PROVE  confirmed'[k] \in Imports /\ ImportOK(confirmed[k])'
  <2>1. confirmed'[k] = [confirmed[k] EXCEPT !.ended = TRUE] /\ confirmed[k] \in Imports
    BY <1>1
  <2>2. QED
    BY <2>1, EndedImport DEF ImportInv
<1>3. confirmed' \in Seq(Imports) /\ Len(confirmed') = Len(confirmed)
  BY <1>1, <1>2
<1>4. InStep'
  <2>1. "goal" \notin drifted' => zone'.goal = server'.writerGoal
    BY <1>1 DEF OutOfStep
  <2>2. \A a \in DOMAIN server'.config.binds \ drifted' :
          server'.config.binds[a].revision = Len(zone'.bound[a])
    BY <1>1 DEF OutOfStep
  <2>3. QED
    BY <1>1, <2>1, <2>2 DEF ImportInv, InStep
<1>5. QED
  BY <1>1, <1>2, <1>3, <1>4 DEF ImportInv, ImportType

LEMMA BootstrapKeepsImports ==
  ASSUME ImportInv, BootstrapRuntimeTopology
  PROVE  ImportInv'
<1>. DEFINE binds == setting.binds
            fresh == {a \in DOMAIN binds : zone.bound[a] = <<>>}
            agents == zone.agents \cup DOMAIN binds
            bound == [a \in Agents |-> IF a \in fresh THEN <<binds[a].principal>> ELSE zone.bound[a]]
<1>1. /\ DOMAIN binds \subseteq Agents
      /\ \A a \in DOMAIN binds : binds[a].principal \in Principals
      /\ zone \in Zones /\ zone.bound \in [Agents -> Seq(Principals)] /\ zone.agents \in SUBSET Agents
  BY SettingsAssumption DEF ImportInv, ImportType, Zones
<1>2. /\ zone' = [zone EXCEPT !.agents = agents, !.bound = bound]
      /\ drifted' = drifted \cup fresh
      /\ UNCHANGED <<manifest, setting, clock, server, confirmed>>
  BY DEF BootstrapRuntimeTopology, Drift
<1>3. agents \in SUBSET Agents /\ bound \in [Agents -> Seq(Principals)]
  BY <1>1
<1>4. \A a \in Agents : bound[a] = zone.bound[a] \/ (a \in fresh /\ a \in agents)
  OBVIOUS
<1>5. \A a \in Agents : a \in zone.agents => a \in agents
  OBVIOUS
<1>. HIDE DEF fresh, agents, bound, binds
<1>6. zone' = [goal |-> zone.goal, bound |-> bound, agents |-> agents, ok |-> zone.ok]
  BY <1>1, <1>2 DEF Zones
<1>7. zone' \in Zones
  BY <1>1, <1>3, <1>6 DEF Zones
<1>8. InStep'
  <2>1. server.config \in Settings /\ \A a \in DOMAIN server.config.binds : a \in Agents
    BY SettingsAssumption DEF ImportInv, ImportType
  <2>2. QED
    BY <1>2, <1>4, <1>5, <1>6, <2>1 DEF ImportInv, InStep
<1>9. QED
  BY <1>2, <1>7, <1>8, ZoneKeepsImports DEF ImportInv, ImportType

LEMMA BindKeepsImports ==
  ASSUME ImportInv, NEW a \in Agents, NEW principal \in Principals, BindRuntimeTopology(a, principal)
  PROVE  ImportInv'
<1>. DEFINE bound == [zone.bound EXCEPT ![a] = Append(zone.bound[a], principal)]
<1>1. /\ zone \in Zones /\ zone.bound \in [Agents -> Seq(Principals)] /\ a \in zone.agents
      /\ zone' = [zone EXCEPT !.bound = bound] /\ drifted' = drifted \cup {a}
      /\ UNCHANGED <<manifest, setting, clock, server, confirmed>>
  BY DEF BindRuntimeTopology, Drift, ImportInv, ImportType, Zones
<1>2. /\ bound \in [Agents -> Seq(Principals)]
      /\ \A x \in Agents \ {a} : bound[x] = zone.bound[x]
  <2>1. Append(zone.bound[a], principal) \in Seq(Principals)
    BY <1>1
  <2>2. QED
    BY <1>1, <2>1
<1>. HIDE DEF bound
<1>3. zone' = [goal |-> zone.goal, bound |-> bound, agents |-> zone.agents, ok |-> zone.ok]
  BY <1>1 DEF Zones
<1>4. zone' \in Zones
  BY <1>1, <1>2, <1>3 DEF Zones
<1>5. InStep'
  <2>1. server.config \in Settings /\ \A x \in DOMAIN server.config.binds : x \in Agents
    BY SettingsAssumption DEF ImportInv, ImportType
  <2>2. QED
    BY <1>1, <1>2, <1>3, <2>1 DEF ImportInv, InStep
<1>6. QED
  BY <1>1, <1>4, <1>5, ZoneKeepsImports DEF ImportInv, ImportType

LEMMA GoalKeepsImports ==
  ASSUME ImportInv, ApproveGoalChange
  PROVE  ImportInv'
<1>. DEFINE goal == zone.goal + 1
<1>1. /\ zone \in Zones /\ zone' = [zone EXCEPT !.goal = goal] /\ drifted' = drifted \cup {"goal"}
      /\ UNCHANGED <<manifest, setting, clock, server, confirmed>>
  BY DEF ApproveGoalChange, Drift, ImportInv, ImportType
<1>2. goal \in Nat
  BY <1>1 DEF Zones
<1>. HIDE DEF goal
<1>3. zone' = [goal |-> goal, bound |-> zone.bound, agents |-> zone.agents, ok |-> zone.ok]
  BY <1>1 DEF Zones
<1>4. zone' \in Zones
  BY <1>1, <1>2, <1>3 DEF Zones
<1>5. InStep'
  BY <1>1, <1>3 DEF ImportInv, InStep
<1>6. QED
  BY <1>1, <1>4, <1>5, ZoneKeepsImports DEF ImportInv, ImportType

LEMMA ImportStep == ImportInv /\ [TransferNext]_transferVars => ImportInv'
<1>. SUFFICES ASSUME ImportInv, [TransferNext]_transferVars PROVE ImportInv'
  OBVIOUS
<1>1. ASSUME UNCHANGED <<zone, server, confirmed, drifted>>, manifest' \in Nat, clock' \in Nat,
             setting' \in Settings
      PROVE  ImportInv'
  BY <1>1, ZoneKeepsImports DEF ImportInv, ImportType, InStep
<1>2. CASE UNCHANGED <<zoneVars, server, confirmed, drifted>>
  BY <1>1, <1>2 DEF zoneVars, ImportInv, ImportType
<1>3. CASE Materialize
  BY <1>1, <1>3 DEF Materialize, ImportInv, ImportType, Zones
<1>4. CASE Configure
  BY <1>1, <1>4 DEF Configure, ImportInv, ImportType
<1>5. CASE Tick
  BY <1>1, <1>5 DEF Tick, ImportInv, ImportType
<1>6. CASE ReturnNext
  <2>. DEFINE same == UNCHANGED <<zoneVars, server, confirmed, drifted>>
  <2>1. ASSUME NEW person, NEW base, NEW changes, NEW chosen,
               RequestApproval(person, base, changes, chosen)
        PROVE  same
    BY <2>1 DEF RequestApproval
  <2>2. ASSUME NEW person, NEW id, NEW hash, NEW decision, DecideApproval(person, id, hash, decision)
        PROVE  same
    BY <2>2 DEF DecideApproval
  <2>3. ASSUME NEW base, NEW entries, NEW approval, ExportBytes(base, entries, approval) PROVE same
    BY <2>3 DEF ExportBytes
  <2>. HIDE DEF same
  <2>4. same
    BY <1>6, <2>1, <2>2, <2>3 DEF ReturnNext, Export, BuildReturn
  <2>5. QED
    BY <1>2, <2>4 DEF same
<1>7. CASE ImportNext
  BY <1>3, <1>4, <1>5, <1>7, PreviewKeepsImports, ApplyKeepsImports, CommitKeepsImports,
     EndKeepsImports, OpenKeepsImports, BootstrapKeepsImports, BindKeepsImports, GoalKeepsImports
     DEF ImportNext
<1>8. QED
  BY <1>2, <1>6, <1>7 DEF TransferNext, transferVars, zoneVars

LEMMA ImportsConfirmed == ImportInv => ImportAsConfirmed
<1>. SUFFICES ASSUME ImportInv, NEW k \in DOMAIN confirmed
              PROVE  LET c == confirmed[k]
                     IN  /\ c.at < c.preview.archive.expires
                         /\ Len(c.written) <= Len(c.preview.binds)
                         /\ \A j \in DOMAIN c.written :
                              /\ c.written[j].bind = c.preview.binds[j]
                              /\ c.written[j].fits \/ c.written[j].drifted
  BY DEF ImportAsConfirmed
<1>1. confirmed[k] \in Imports /\ ImportOK(confirmed[k])
  BY DEF ImportInv, ImportType
<1>2. DOMAIN confirmed[k].written = 1..Len(confirmed[k].written)
  BY <1>1 DEF Imports
<1>3. QED
  BY <1>1, <1>2 DEF ImportOK

\* An import (ApplyImport, commitImport) writes exactly the bindings an owner confirmed,
\* in their order; and unless the agent or the goal has drifted from what the server
\* loaded, the log reduces with each of them, for any number of imports that run at the
\* same time, whatever else binds agents or moves the goal.
THEOREM ImportIsAsConfirmed == TransferSpec => []ImportAsConfirmed
<1>1. TransferInit => ImportInv
  <2>. SUFFICES ASSUME TransferInit PROVE ImportInv
    OBVIOUS
  <2>. DEFINE good == TRUE
              zero == [a \in Agents |-> <<>>]
  <2>1. good \in BOOLEAN /\ zero \in [Agents -> Seq(Principals)]
    OBVIOUS
  <2>2. zone = [goal |-> 1, bound |-> zero, agents |-> {}, ok |-> good]
    BY DEF TransferInit
  <2>3. \A a \in Agents : zone.bound[a] = <<>>
    BY <2>2
  <2>. HIDE DEF good, zero
  <2>4. ImportType
    BY <2>1, <2>2 DEF TransferInit, ImportType, Zones, Loaded
  <2>5. InStep
    BY <2>2, <2>3 DEF TransferInit, InStep, OutOfStep, Loaded
  <2>6. QED
    BY <2>4, <2>5 DEF TransferInit, ImportInv
<1>2. QED
  BY <1>1, ImportStep, ImportsConfirmed, PTL DEF TransferSpec
=============================================================================
