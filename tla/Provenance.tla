------------------------------ MODULE Provenance ------------------------------
(***************************************************************************)
(* The bindings of Git commits to the work of the project.  Processes run  *)
(* SCM commands on one log and one repository: a command reads the log,    *)
(* then the repository, prepares events the reducer accepts after what it  *)
(* read, and appends them if the log is still as long.                     *)
(***************************************************************************)
EXTENDS Integers, FiniteSets, SequencesExt

CONSTANTS
  Clients,      \* the processes that run commands
  Commits,
  Missions,
  Risk,         \* per mission, its risk level
  Covers,       \* per mission, the commits that change only paths of its scopes
  MaxProposals  \* bound on the bindings of a behaviour

ASSUME CommitsAssumption == IsFiniteSet(Commits)

VARIABLES
  provenance,  \* what the log reduces to
  git,         \* the objects of the repository, and what its refs reach
  preparing    \* per client, the events it is about to append

provenanceVars == <<provenance, git, preparing>>

NothingPrepared == [at |-> 0, events |-> {}]

ProvenanceInit ==
  /\ provenance = [length |-> 1, repository |-> FALSE,
                   commits |-> [o \in Commits |-> "unknown"], bindings |-> <<>>,
                   approved |-> {}, current |-> TRUE]
  /\ git = [objects |-> Commits, reachable |-> Commits]
  /\ preparing = [c \in Clients |-> NothingPrepared]
-----------------------------------------------------------------------------
(* The reducer. *)
RepositoryEvent == [kind |-> "registered"]
CommitEvent(o, kind) == [kind |-> kind, commit |-> o]
BindingEvent(id, kind) == [kind |-> kind, id |-> id]
Proposal(o, m) == [kind |-> "proposed", commit |-> o, mission |-> m]

ApplySCMCommit(o, status, events) ==
  IF CommitEvent(o, "superseded") \in events THEN "superseded"
  ELSE IF CommitEvent(o, "observed") \in events THEN "observed" ELSE status

ApplySCMBindingProposed(events) ==
  {[commit |-> e.commit, mission |-> e.mission, status |-> "proposed"] :
     e \in {x \in events : x.kind = "proposed"}}

ApplySCMBindingDecided(id, binding, events) ==
  LET decided == {s \in {"confirmed", "rejected", "invalidated"} : BindingEvent(id, s) \in events}
  IN [binding EXCEPT !.status = IF decided = {} THEN @ ELSE CHOOSE s \in decided : TRUE]

\* The projection after the events of one command.
Reduced(p, events) ==
  [p EXCEPT
     !.length = @ + Cardinality(events),
     !.repository = @ \/ RepositoryEvent \in events,
     !.commits = [o \in Commits |-> ApplySCMCommit(o, @[o], events)],
     !.bindings = [i \in DOMAIN @ |-> ApplySCMBindingDecided(i, @[i], events)]
                    \o SetToSeq(ApplySCMBindingProposed(events))]

\* validateSCMBinding: the mission and its tasks are of the current goal.  The evidence
\* need only be recorded: the status it is compared with is one no event gives.
ValidateSCMBinding(p, o, m) ==
  p.commits[o] = "observed" /\ p.current /\ o \in Covers[m]

HasApprovedRequest(p, id) == id \in p.approved

AuthorizeSCMConfirmation(p, role, id) ==
  LET risk == Risk[p.bindings[id].mission]
  IN \/ risk \in {"L0", "L1"} /\ role = "owner"
     \/ risk = "L2" /\ role \in {"lead", "reviewer"} /\ HasApprovedRequest(p, id)
     \/ risk = "L3" /\ role = "owner" /\ HasApprovedRequest(p, id)
-----------------------------------------------------------------------------
(* The repository. *)

\* A branch moves, by force or not, or comes back to what it was.
RefsMove ==
  /\ \E reached \in SUBSET git.objects : git' = [git EXCEPT !.reachable = reached]
  /\ UNCHANGED <<provenance, preparing>>

\* Git removes an object that no ref reaches.
Prune(o) ==
  /\ o \in git.objects \ git.reachable
  /\ git' = [git EXCEPT !.objects = @ \ {o}]
  /\ UNCHANGED <<provenance, preparing>>

\* merge-base --is-ancestor is an error for an object that is not there.
ReachabilityKnown(commits) == commits \subseteq git.objects

IsReachable(o) == o \in git.reachable
-----------------------------------------------------------------------------
(* The commands: each prepares its events from one snapshot. *)
Prepared(c, events) ==
  /\ preparing[c] = NothingPrepared
  /\ preparing' = [preparing EXCEPT ![c] = [at |-> provenance.length, events |-> events]]
  /\ UNCHANGED <<provenance, git>>

\* A repository that is registered already is answered as it is.
RegisterSCM(c, role) ==
  /\ role = "owner" /\ ~provenance.repository
  /\ Prepared(c, {RepositoryEvent})

\* A commit that was ever observed is answered as it was observed, and not looked at.
ObserveSCMCommit(c, o) ==
  /\ provenance.repository /\ provenance.commits[o] = "unknown" /\ o \in git.objects
  /\ Prepared(c, {CommitEvent(o, "observed")})

ProposeSCMBinding(c, o, m) ==
  /\ Len(provenance.bindings) < MaxProposals
  /\ ValidateSCMBinding(provenance, o, m)
  /\ Prepared(c, {Proposal(o, m)})

\* Neither the commit nor the goal of the binding is looked at again.
ConfirmSCMBinding(c, role, id) ==
  /\ provenance.bindings[id].status = "proposed"
  /\ AuthorizeSCMConfirmation(provenance, role, id)
  /\ Prepared(c, {BindingEvent(id, "confirmed")})

RejectSCMBinding(c, role, id) ==
  /\ provenance.bindings[id].status = "proposed"
  /\ role \in {"owner", "lead", "reviewer"}
  /\ Prepared(c, {BindingEvent(id, "rejected")})

ObservedCommits == {o \in Commits : provenance.commits[o] = "observed"}

ConfirmedOf(commits) ==
  {i \in DOMAIN provenance.bindings :
     provenance.bindings[i].commit \in commits /\ provenance.bindings[i].status = "confirmed"}

\* Every observed commit the refs no longer reach is superseded, and its confirmed
\* bindings with it.  Bindings that are still proposed stay so.
VerifySCMHistory(c, role) ==
  LET lost == {o \in ObservedCommits : ~IsReachable(o)}
  IN /\ role \in {"owner", "reviewer"} /\ provenance.repository
     /\ ReachabilityKnown(ObservedCommits) /\ lost # {}
     /\ Prepared(c, {CommitEvent(o, "superseded") : o \in lost}
                      \cup {BindingEvent(i, "invalidated") : i \in ConfirmedOf(lost)})

\* Mutant: the log may have grown since the command read it.
UnchangedOrGrown(c) == preparing[c].at <= provenance.length

\* The log is as long as the command read it.
Unchanged(c) == preparing[c].at = provenance.length

AppendPreparedEvents(c) ==
  /\ preparing[c] # NothingPrepared /\ Unchanged(c)
  /\ provenance' = Reduced(provenance, preparing[c].events)
  /\ preparing' = [preparing EXCEPT ![c] = NothingPrepared]
  /\ UNCHANGED git

\* The log has changed, the append fails, or the process dies before it.
NotAppended(c) ==
  /\ preparing[c] # NothingPrepared
  /\ preparing' = [preparing EXCEPT ![c] = NothingPrepared]
  /\ UNCHANGED <<provenance, git>>

\* Governance: an approval of exactly this binding is decided, or the goal changes.
GovernanceMoves ==
  /\ \/ \E id \in DOMAIN provenance.bindings \ provenance.approved :
          provenance' = [provenance EXCEPT !.length = @ + 1, !.approved = @ \cup {id}]
     \/ /\ provenance.current
        /\ provenance' = [provenance EXCEPT !.length = @ + 1, !.current = FALSE]
  /\ UNCHANGED <<git, preparing>>

ProvenanceNext ==
  \/ \E c \in Clients, role \in {"owner", "lead", "reviewer", "agent"} :
       \/ RegisterSCM(c, role) \/ VerifySCMHistory(c, role)
       \/ \E id \in DOMAIN provenance.bindings :
            ConfirmSCMBinding(c, role, id) \/ RejectSCMBinding(c, role, id)
  \/ \E c \in Clients, o \in Commits :
       ObserveSCMCommit(c, o) \/ \E m \in Missions : ProposeSCMBinding(c, o, m)
  \/ \E c \in Clients : AppendPreparedEvents(c) \/ NotAppended(c)
  \/ RefsMove \/ (\E o \in Commits : Prune(o)) \/ GovernanceMoves

ProvenanceSpec == ProvenanceInit /\ [][ProvenanceNext]_provenanceVars
-----------------------------------------------------------------------------
\* No binding stays confirmed when its commit is superseded, although another process
\* may confirm it between the reading of the log and the append of VerifySCMHistory.  One
\* that was still proposed may be confirmed afterwards.
SupersededTakesBindings ==
  [][\A i \in DOMAIN provenance.bindings :
       LET o == provenance.bindings[i].commit
       IN provenance.commits[o] # "superseded" /\ provenance'.commits[o] = "superseded"
            => provenance'.bindings[i].status # "confirmed"]_provenance
=============================================================================
