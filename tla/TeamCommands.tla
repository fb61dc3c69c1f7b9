---------------------------- MODULE TeamCommands ----------------------------
(***************************************************************************)
(* Team Core with concurrent callers.  A call reads the accepted state     *)
(* under the mutation lock, releases it, builds its batch from what it     *)
(* read, and pushes the batch under the lock again: whatever was accepted  *)
(* in between, the batch still names the base it was built on.  A device   *)
(* builds its batch on its replica and may push the same batch again, when *)
(* an answer was lost; a call of the API pushes its batch once.            *)
(***************************************************************************)
EXTENDS TeamCore

CONSTANTS Requests,  \* what callers submit: [name, actor, device, steps]
          Resolvers, \* the actors that resolve conflicts
          MaxTries,  \* bound: deliveries of one device batch
          MaxLog     \* bound: the accepted log no longer grows beyond it

VARIABLES built,     \* the batch each request was built into, None before
          tries,     \* how often the batch was delivered
          answers    \* the accepted ranges answered to each request

vars == <<core, built, tries, answers>>

IsStep(step) ==
  /\ step = [type |-> step.type, on |-> step.on, task |-> step.task, scope |-> step.scope,
             lease |-> step.lease, subject |-> step.subject, until |-> step.until]
  /\ step.task \in Tasks \cup {None} /\ step.lease \in Leases \cup {None}
  /\ step.type \in DOMAIN TaskMove => step.on \in Tasks

\* Callers submit steps of their work; only the service opens and resolves conflicts,
\* and there are none in a history it is set up on.
ConflictTypes == {"conflict.opened", "conflict.resolved"}

ASSUME RequestsAssumption ==
  /\ Resolvers \subseteq Actors /\ MaxTries \in Nat \ {0}
  /\ \A r \in Requests :
       /\ r.actor \in Actors /\ IsSequence(r.steps) /\ r.steps # <<>>
       /\ \A i \in DOMAIN r.steps : IsStep(r.steps[i]) /\ r.steps[i].type \notin ConflictTypes
  /\ \A i \in DOMAIN Seed :
       /\ Seed[i].type \notin ConflictTypes
       /\ Seed[i].task \in Tasks \cup {None} /\ Seed[i].actor \in Actors

\* The ids are drawn at random: no two requests share a name, and neither the seed
\* nor the service uses one of them.
ASSUME NamesAssumption ==
  /\ \A q, r \in Requests : q.name = r.name => q = r
  /\ \A r \in Requests :
       /\ r.name # "svc"
       /\ \A i \in DOMAIN Seed : Seed[i].batch # <<r.name, 0>> /\ Seed[i].id[1] # r.name
  /\ \A i \in DOMAIN Seed : Seed[i].id[1] # "svc"
  /\ \A i, j \in DOMAIN Seed : Seed[i].id = Seed[j].id => i = j

Init ==
  /\ CoreInit
  /\ built = [r \in Requests |-> None]
  /\ tries = [r \in Requests |-> 0]
  /\ answers = [r \in Requests |-> {}]
-----------------------------------------------------------------------------
\* pushCommand takes the task and the scope from the lease it names.
Bound(s, r, step) ==
  IF ~r.device /\ step.lease # None /\ s.lease[step.lease].status # "none"
  THEN [step EXCEPT !.task  = s.lease[step.lease].task,
                    !.scope = s.lease[step.lease].scope]
  ELSE step

\* commandState, or what a device read from its replica.
Build(r) ==
  /\ built[r] = None
  /\ mode = "writable" /\ Reducible(accepted)
  /\ LET s == Reduce(accepted) IN
     built' = [built EXCEPT ![r] =
       [id |-> <<r.name, 0>>, base |-> Baseline,
        events |-> [i \in DOMAIN r.steps |->
                      NewEvent(r.name, i, Baseline, s.goal, r.actor,
                               Bound(s, r, r.steps[i]))]]]
  /\ UNCHANGED <<core, tries, answers>>

\* Push.  A crash or an error on the way leaves the caller without an answer.
Deliver(r) ==
  /\ built[r] # None
  /\ Len(accepted) < MaxLog
  /\ tries[r] < IF r.device THEN MaxTries ELSE 1
  /\ mode # "down"
  /\ \E answer \in {Verdict(built[r])} :
     /\ Perform(answer)
     /\ answers' = IF answer.status = "accepted" /\ Replied
                   THEN [answers EXCEPT ![r] = @ \cup {<<answer.from, answer.to>>}]
                   ELSE answers
  /\ tries' = [tries EXCEPT ![r] = @ + 1]
  /\ UNCHANGED built

\* ResolveConflict; of a resolved conflict it only repeats the answer.
Resolve(actor, action) ==
  /\ mode = "writable" /\ Reducible(accepted)
  /\ Len(accepted) < MaxLog
  /\ \E c \in Reduce(accepted).conflicts :
       /\ c.open
       /\ MayResolve(RoleOf[actor], c.code)
       /\ \E events \in Resolutions(c, actor, action) : Commit(events)
  /\ UNCHANGED <<built, tries, answers>>

Service ==
  /\ \/ Restart
     \/ Crash
     \/ Tick
  /\ UNCHANGED <<built, tries, answers>>

Next ==
  \/ \E r \in Requests : Build(r) \/ Deliver(r)
  \/ \E actor \in Resolvers, action \in Actions : Resolve(actor, action)
  \/ Service

Spec == Init /\ [][Next]_vars
-----------------------------------------------------------------------------
(***************************************************************************)
(* Type correctness of the service and its callers.                        *)
(***************************************************************************)
TypeOK ==
  /\ mode \in Modes
  /\ manifest \in Nat /\ now \in 0..MaxNow /\ faults \in 0..MaxFaults
  /\ \A i \in DOMAIN accepted : accepted[i].actor \in Actors
  /\ \A r \in Requests :
       /\ built[r] # None => built[r].base \in 1..Len(accepted)
       /\ tries[r] \in 0..MaxTries

(***************************************************************************)
(* The accepted log replays: Push appends a batch it only previewed on an  *)
(* older base, and Status, Push and Recover all fail on a log that does    *)
(* not reduce (service.go Push, "validates a whole batch").                *)
(***************************************************************************)
AcceptedReducible == Reducible(accepted)

(***************************************************************************)
(* Only a batch pushed on a base that has moved can make the log           *)
(* irreducible; a batch built on the head, a conflict and a resolution     *)
(* never do.                                                               *)
(***************************************************************************)
OnlyMovedBaseBreaks ==
  [][Reducible(accepted) /\ ~Reducible(accepted') =>
       /\ accepted # <<>>
       /\ accepted'[Len(accepted) + 1].base < Len(accepted)
       /\ accepted'[Len(accepted) + 1].type # "conflict.resolved"]_vars

(***************************************************************************)
(* An event is accepted at most once, however often its batch is delivered *)
(* and whatever crashed in between (storedBatch, AppendBatchIdempotent).   *)
(***************************************************************************)
AcceptedOnce ==
  \A i, j \in DOMAIN accepted : accepted[i].id = accepted[j].id => i = j

(***************************************************************************)
(* A caller that asks again gets the range it got before, and that range   *)
(* holds exactly its batch (service.go storedBatch, acceptedResult).       *)
(***************************************************************************)
RetryStable ==
  \A r \in Requests : \A x, y \in answers[r] :
    x = y /\ SubSeq(accepted, x[1], x[2]) = built[r].events

(***************************************************************************)
(* The policy holds where an event lands, not only on the base its batch   *)
(* was previewed on: a lease revoked, expired or made stale between base   *)
(* and append keeps the batch out (Policy.Authorize, DetectConflict).      *)
(***************************************************************************)
AuthorizedAtAcceptance ==
  [][\A i \in (Len(accepted) + 1) .. Len(accepted') :
       \/ accepted = <<>> \/ accepted'[i].id[1] = "svc"
       \/ Authorize(Reduce(SubSeq(accepted', 1, i - 1)), accepted'[i], now)]_vars

(***************************************************************************)
(* While the service takes writes, what a caller was told is accepted is   *)
(* in the materialized facts, and the manifest is the one of those facts:  *)
(* a log that was not read again after an append may leave them behind,    *)
(* but then the call has failed (service.go materializeAcceptedLocked).    *)
(***************************************************************************)
Materialized ==
  mode = "writable" =>
    /\ manifest = Reduce(canonical).goal
    /\ \A r \in Requests : \A x \in answers[r] : x[2] <= Len(canonical)

(***************************************************************************)
(* Wherever a materialization, the process or a read of the log stopped,   *)
(* and whatever was accepted since, the files left behind are such that    *)
(* New and Recover can repair them: the facts are the start of the log,    *)
(* and the manifest is not ahead of it (bootstrapLocked,                   *)
(* updateManifestGoalVersion).                                             *)
(***************************************************************************)
RestartCanRepair ==
  Reducible(Facts) =>
    IsPrefix(canonical, Facts) /\ manifest <= Reduce(Facts).goal

(***************************************************************************)
(* A batch has at most one open conflict, and while it is open the batch   *)
(* is not accepted (conflictForBatch).                                     *)
(***************************************************************************)
OneOpenConflict ==
  LET Open == {c \in Reduce(accepted).conflicts : c.open}
  IN \A c \in Open :
       /\ \A d \in Open : d.batch = c.batch => d = c
       /\ \A i \in DOMAIN accepted : accepted[i].batch # c.batch

(***************************************************************************)
(* A batch about whose conflict a human decided is not let in by a late    *)
(* retry, whatever was decided (ResolveConflict, Push).  Nothing remembers *)
(* the decision: what keeps the batch out is that the goal has passed it,  *)
(* or that the scope of the conflict's own event overlaps it.  A batch     *)
(* that names no scope is the exception, unless its goal is stale: a lease *)
(* is renewed again, and a completed task whose evidence is invalidated is *)
(* open again.                                                             *)
(***************************************************************************)
DecidedStaysDecided ==
  \A i, j \in DOMAIN accepted :
    /\ accepted[i].type = "conflict.resolved" /\ accepted[i].on = accepted[j].id
    /\ Scopes(accepted[j].local) # {} \/ accepted[j].code = "stale_goal"
    => \A k \in DOMAIN accepted : accepted[k].batch # accepted[j].on
=============================================================================
