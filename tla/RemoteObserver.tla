---------------------------- MODULE RemoteObserver ----------------------------
(***************************************************************************)
(* The observation of a GitHub repository.  A sync asks GitHub for what    *)
(* has changed since the cursor, appends the facts the log does not have   *)
(* to the log of the project, and then saves the cursor.  The cursor holds *)
(* the ETag of every resource; GitHub answers "not modified" to one that   *)
(* is still right.  Two processes may sync, and either may die.            *)
(***************************************************************************)
EXTENDS Integers, FiniteSets, SequencesExt

CONSTANTS
  Syncers,   \* the processes
  Heads,     \* the commits the monitored branch may be at
  MaxMoves,  \* bound on the moves of the branch
  MaxPull    \* bound on the changes of the pull request, which stays open

ASSUME MaxPullAssumption == MaxPull \in Nat

VARIABLES
  github,    \* the branch and the pull request, as they are
  observed,  \* what the log reduces to
  saved,     \* the config and the cursor file
  syncing    \* per process, the operation it is in

remoteVars == <<github, observed, saved, syncing>>

Absent == "absent"
Pushes == 1..MaxPull
NoCursor == [oid |-> Absent, active |-> 0,
             tags |-> [ref |-> Absent, list |-> -1, detail |-> -1, commits |-> 0, reviews |-> 0,
                       checks |-> [k \in Pushes |-> "none"]]]
NoSync == [phase |-> "idle"]

\* Before the first change there is no pull request.  `pushed` counts its commits, the last
\* of which is its head; `reviews` its reviews; `checks` has the check of every commit.
RemoteInit ==
  /\ \E h \in Heads : github =
       [ref |-> h, moves |-> 0, updated |-> 0, pushed |-> 0, reviews |-> 0,
        checks |-> [k \in Pushes |-> "none"]]
  /\ observed = [length |-> 1, remote |-> FALSE, refs |-> <<>>,
                 pull |-> [updated |-> 0, commits |-> {}], reviews |-> 0,
                 checks |-> [k \in Pushes |-> "none"]]
  /\ saved = [config |-> FALSE, cursor |-> NoCursor]
  /\ syncing = [p \in Syncers |-> NoSync]
-----------------------------------------------------------------------------
(* GitHub. *)
RefChanges ==
  /\ github.moves < MaxMoves
  /\ \E h \in (Heads \cup {Absent}) \ {github.ref} :
       github' = [github EXCEPT !.ref = h, !.moves = @ + 1]
  /\ UNCHANGED <<observed, saved, syncing>>

Pushed(g) == [g EXCEPT !.pushed = @ + 1, !.checks[g.pushed + 1] = "queued"]

PullChanges ==
  /\ github.updated < MaxPull
  /\ github' \in {[Pushed(github) EXCEPT !.updated = @ + 1]}
                 \cup (IF github.updated = 0 THEN {}
                       ELSE {[github EXCEPT !.updated = @ + 1],
                             [github EXCEPT !.updated = @ + 1, !.reviews = @ + 1]})
  /\ UNCHANGED <<observed, saved, syncing>>

CheckCompletes(k) ==
  /\ github.checks[k] = "queued"
  /\ github' = [github EXCEPT !.checks[k] = "completed"]
  /\ UNCHANGED <<observed, saved, syncing>>

\* A conditional request: the ETag sent is that of what the resource still is.
NotModified(tag, content) == tag = content
-----------------------------------------------------------------------------
(* The facts of one sync: what GitHub answers, with the ETags of the cursor. *)
RefFact(oid, previous) == [kind |-> "ref", oid |-> oid, previous |-> previous]
PullFact(updated, commits) == [kind |-> "pull", updated |-> updated, commits |-> commits]
ReviewFact(n) == [kind |-> "review", number |-> n]
CheckFact(k, status) == [kind |-> "check", head |-> k, status |-> status]

\* A branch that is not there is an error unless the cursor knows it.
RefKnown(cursor) == github.ref # Absent \/ cursor.oid # Absent

ObserveRef(cursor) ==
  IF github.ref = Absent THEN {RefFact(Absent, cursor.oid)}
  ELSE IF NotModified(cursor.tags.ref, github.ref) \/ cursor.oid = github.ref THEN {}
  ELSE {RefFact(github.ref, cursor.oid)}

\* The ETag of a deleted branch stays in the cursor.
CursorRef(cursor) ==
  IF github.ref = Absent THEN [cursor EXCEPT !.oid = Absent]
  ELSE IF NotModified(cursor.tags.ref, github.ref) THEN cursor
  ELSE [cursor EXCEPT !.oid = github.ref, !.tags.ref = github.ref]

ListModified(cursor) == github.updated # 0 /\ ~NotModified(cursor.tags.list, github.updated)

\* A page that is not modified adds nothing to what is collected.
CollectCommits(cursor) ==
  IF NotModified(cursor.tags.commits, github.pushed) THEN {} ELSE 1..github.pushed

CollectReviews(cursor) ==
  IF NotModified(cursor.tags.reviews, github.reviews) THEN {}
  ELSE {ReviewFact(n) : n \in 1..github.reviews}

CollectChecks(cursor, k) ==
  IF NotModified(cursor.tags.checks[k], github.checks[k]) THEN {}
  ELSE {CheckFact(k, github.checks[k])}

\* The pull request, if it is listed: its detail, or the listed values if the detail is
\* not modified, are the same here, since both are read at one time.
CollectPull(cursor) ==
  {PullFact(github.updated, CollectCommits(cursor))}
    \cup CollectReviews(cursor) \cup CollectChecks(cursor, github.pushed)

\* If the list is not modified, only the checks of the active head are asked for.
ActiveChecks(cursor) ==
  IF cursor.active = 0 THEN {} ELSE CollectChecks(cursor, cursor.active)

ObservePull(cursor) ==
  IF ListModified(cursor) THEN CollectPull(cursor) ELSE ActiveChecks(cursor)

CursorPull(cursor) ==
  IF ListModified(cursor)
  THEN [cursor EXCEPT !.active = github.pushed, !.tags.list = github.updated,
          !.tags.detail = github.updated, !.tags.commits = github.pushed,
          !.tags.reviews = github.reviews,
          !.tags.checks[github.pushed] = github.checks[github.pushed]]
  ELSE [cursor EXCEPT !.tags.list = github.updated,
          !.tags.checks = [k \in Pushes |-> IF k = cursor.active THEN github.checks[k] ELSE @[k]]]
-----------------------------------------------------------------------------
(* The reducer. *)
CurrentRef == observed.refs[Len(observed.refs)]

SameRemoteFact(fact) ==
  \/ observed.refs # <<>> /\ fact = CurrentRef
  \/ fact = PullFact(observed.pull.updated, observed.pull.commits)
  \/ fact.kind = "review" /\ fact.number <= observed.reviews
  \/ \E k \in Pushes : fact = CheckFact(k, observed.checks[k])

RemoteObservationEvents(facts) == {f \in facts : ~SameRemoteFact(f)}

ApplyRefObserved(f) == observed.refs # <<>> => f.previous = CurrentRef.oid
ApplyPullRequestObserved(f) == f.commits # {} /\ f.updated > observed.pull.updated
ApplyReviewObserved(facts) ==
  observed.pull.updated > 0 \/ \E f \in facts : f.kind = "pull"
ApplyCheckObserved(f) == observed.checks[f.head] # "completed"

ValidPrepared(facts) ==
  \A f \in facts :
    /\ f.kind = "ref" => ApplyRefObserved(f)
    /\ f.kind = "pull" => ApplyPullRequestObserved(f)
    /\ f.kind = "review" => ApplyReviewObserved(facts)
    /\ f.kind = "check" => ApplyCheckObserved(f)

OfKind(facts, kind) == {f \in facts : f.kind = kind}

WithFacts(o, facts) ==
  [o EXCEPT
     !.length = @ + Cardinality(facts),
     !.refs = @ \o SetToSeq(OfKind(facts, "ref")),
     !.pull = IF OfKind(facts, "pull") = {} THEN @
              ELSE LET f == CHOOSE f \in OfKind(facts, "pull") : TRUE
                   IN [updated |-> f.updated, commits |-> f.commits],
     !.reviews = IF OfKind(facts, "review") = {} THEN @
                 ELSE Max({f.number : f \in OfKind(facts, "review")}),
     !.checks = [k \in Pushes |->
                   IF \E f \in OfKind(facts, "check") : f.head = k
                   THEN (CHOOSE f \in OfKind(facts, "check") : f.head = k).status ELSE @[k]]]
-----------------------------------------------------------------------------
(* The operations: each reads the log, asks GitHub, appends, and saves. *)
Proceeds(p, next) == syncing' = [syncing EXCEPT ![p] = next]

\* The remote is of the time it is prepared at: one that is registered is never the same
\* again, so that a second connect is refused, even if the config was not saved.
PrepareConnect(p) ==
  /\ syncing[p] = NoSync /\ ~observed.remote
  /\ Proceeds(p, [phase |-> "connecting", at |-> observed.length])
  /\ UNCHANGED <<github, observed, saved>>

AppendRemote(p) ==
  /\ syncing[p].phase = "connecting" /\ syncing[p].at = observed.length
  /\ observed' = [observed EXCEPT !.remote = TRUE, !.length = @ + 1]
  /\ Proceeds(p, [phase |-> "connected"])
  /\ UNCHANGED <<github, saved>>

CommitConnect(p) ==
  /\ syncing[p].phase = "connected"
  /\ saved' = [saved EXCEPT !.config = TRUE]
  /\ Proceeds(p, NoSync)
  /\ UNCHANGED <<github, observed>>

\* What is left of a sync whose facts are in the log.
ToSave(cursor) == [phase |-> "appended", cursor |-> cursor]

\* A sync whose facts the reducer refuses changes nothing, and is no step.
PrepareSync(p) ==
  LET facts == RemoteObservationEvents(ObserveRef(saved.cursor) \cup ObservePull(saved.cursor))
  IN /\ syncing[p] = NoSync /\ observed.remote /\ saved.config
     /\ RefKnown(saved.cursor)
     /\ ValidPrepared(facts)
     /\ LET cursor == CursorPull(CursorRef(saved.cursor)) IN
        Proceeds(p, IF facts = {} THEN ToSave(cursor)
                    ELSE [phase |-> "prepared", at |-> observed.length, facts |-> facts,
                          cursor |-> cursor])
     /\ UNCHANGED <<github, observed, saved>>

AppendFacts(p) ==
  /\ syncing[p].phase = "prepared" /\ syncing[p].at = observed.length
  /\ observed' = WithFacts(observed, syncing[p].facts)
  /\ Proceeds(p, ToSave(syncing[p].cursor))
  /\ UNCHANGED <<github, saved>>

\* The cursor that is saved is the one that was prepared, whatever is saved by now.
CommitSync(p) ==
  /\ syncing[p].phase = "appended"
  /\ saved' = [saved EXCEPT !.cursor = syncing[p].cursor]
  /\ Proceeds(p, NoSync)
  /\ UNCHANGED <<github, observed>>

\* Mutant: the cursor is saved although the log has changed.
SavedAnyway(p) ==
  IF syncing[p].phase = "prepared" THEN ToSave(syncing[p].cursor) ELSE NoSync

\* The log has changed: the operation is refused, and its token aborted.
AfterConflict(p) == NoSync

Conflicts(p) ==
  /\ syncing[p].phase \in {"connecting", "prepared"} /\ syncing[p].at # observed.length
  /\ Proceeds(p, AfterConflict(p))
  /\ UNCHANGED <<github, observed, saved>>

\* An append or a save fails, or the process dies before it.
SyncFails(p) ==
  /\ syncing[p] # NoSync
  /\ Proceeds(p, NoSync)
  /\ UNCHANGED <<github, observed, saved>>

\* The operator removes the cursor file.
RemoveCursor ==
  /\ saved.cursor # NoCursor
  /\ saved' = [saved EXCEPT !.cursor = NoCursor]
  /\ UNCHANGED <<github, observed, syncing>>

RemoteNext ==
  \/ RefChanges \/ PullChanges \/ (\E k \in Pushes : CheckCompletes(k)) \/ RemoveCursor
  \/ \E p \in Syncers :
       \/ PrepareConnect(p) \/ AppendRemote(p) \/ CommitConnect(p)
       \/ PrepareSync(p) \/ AppendFacts(p) \/ CommitSync(p)
       \/ Conflicts(p) \/ SyncFails(p)

RemoteSpec == RemoteInit /\ [][RemoteNext]_remoteVars
-----------------------------------------------------------------------------
\* Whatever the cursor spares GitHub from repeating is in the log: its branch, its pull
\* request, its reviews and its checks.  The cursor is saved after the append, by a process
\* that may have been overtaken, and is older than the log after a failure; it is never
\* ahead, or facts would be lost for good.
CursorFollowsLog ==
  LET cursor == saved.cursor
      known == {Absent} \cup {observed.refs[i].oid : i \in DOMAIN observed.refs}
  IN /\ {cursor.oid, cursor.tags.ref} \subseteq known
     /\ cursor.tags.list <= observed.pull.updated
     /\ cursor.tags.reviews <= observed.reviews
     /\ cursor.tags.commits \in observed.pull.commits \cup {0}
     /\ \A k \in Pushes : cursor.tags.checks[k] \in {"none", "queued", observed.checks[k]}
=============================================================================
