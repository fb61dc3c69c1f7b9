----------------------------- MODULE Governance -----------------------------
(***************************************************************************)
(* The governance reducer of Haowork (internal/model/reducer.go): how a    *)
(* history of events becomes the project state, and which event a state    *)
(* admits next.  Only the event types Team collaboration is about are      *)
(* here.  A requirement carries exactly one task, so one status stands for *)
(* both; a run is identified with the task it runs.  Everything is a pure  *)
(* function of the history: Team Core and every device replay it.          *)
(***************************************************************************)
EXTENDS Integers, Sequences, FiniteSets, SequencesExt

CONSTANTS Changes,   \* goal change ids
          Leases,    \* lease ids
          Tasks,     \* task ids
          Actors,    \* actors a device or an API token authenticates as
          RoleOf,    \* the governance role of each actor
          None       \* the absent id

Roles == {"owner", "lead", "reviewer", "contributor", "agent"}

ASSUME RolesAssumption == RoleOf \in [Actors -> Roles]
-----------------------------------------------------------------------------
(***************************************************************************)
(* The state of a project, as Reduce builds it.  ok is FALSE once an event *)
(* was not admitted: Reduce then returns an error and no state at all.     *)
(***************************************************************************)
Uninitialized ==
  [ok        |-> TRUE,
   ids       |-> {},
   goal      |-> 0,
   change    |-> [c \in Changes |-> [status |-> "none", base |-> 0]],
   lease     |-> [l \in Leases |->
                    [status |-> "none", subject |-> None, task |-> None,
                     scope |-> {}, until |-> 0]],
   task      |-> [t \in Tasks |->
                    [status |-> "none", goal |-> 0, runner |-> None]],
   conflicts |-> {}]

(***************************************************************************)
(* The task life cycle: the statuses an event requires and the one it      *)
(* leaves.  A task has one record of evidence at a time, recorded by the   *)
(* time it is verified; invalidating it takes even a completed task back   *)
(* (recomputeTaskVerification).                                            *)
(***************************************************************************)
TaskMove ==
  [type \in {"requirement.planned", "requirement.approved", "run.started",
             "run.step.started", "run.finished", "evidence.verified",
             "evidence.invalidated", "task.completed"} |->
     CASE type = "requirement.planned"  -> <<{"none"}, "Draft">>
       [] type = "requirement.approved" -> <<{"Draft"}, "Approved">>
       [] type = "run.started"          -> <<{"Approved"}, "Running">>
       [] type = "run.step.started"     -> <<{"Running"}, "Running">>
       [] type = "run.finished"         -> <<{"Running"}, "Verifying">>
       [] type = "evidence.verified"    -> <<{"Verifying"}, "Verified">>
       [] type = "task.completed"       -> <<{"Verified"}, "Completed">>
       [] type = "evidence.invalidated" ->
            <<{"Verifying", "Verified", "Completed"}, "Verifying">>]

GoalChanges == {"goal.change.proposed", "goal.change.approved",
                "goal.change.rejected"}

LeaseUpdates == {"lease.renewed", "lease.released", "lease.revoked"}

OpenConflict(s, id) == \E c \in s.conflicts : c.id = id /\ c.open

(***************************************************************************)
(* The checks an apply function makes before it changes the state, by the  *)
(* aggregate the event is about.                                           *)
(***************************************************************************)
AdmitsGoalChange(s, e) ==
  LET change == s.change[e.on] IN
  CASE e.type = "goal.change.proposed" -> change.status = "none"
    [] e.type = "goal.change.approved" ->
         change.status = "proposed" /\ change.base = s.goal
    [] e.type = "goal.change.rejected" -> change.status = "proposed"

AdmitsLease(s, e) ==
  s.lease[e.on].status = IF e.type = "lease.issued" THEN "none" ELSE "active"

AdmitsConflict(s, e) ==
  IF e.type = "conflict.opened"
  THEN \A c \in s.conflicts : c.id # e.id
  ELSE /\ RoleOf[e.actor] \in {"owner", "lead", "reviewer"}
       /\ OpenConflict(s, e.on)

AdmitsType(s, e) ==
  CASE e.type \in GoalChanges -> AdmitsGoalChange(s, e)
    [] e.type \in LeaseUpdates \cup {"lease.issued"} -> AdmitsLease(s, e)
    [] e.type \in DOMAIN TaskMove -> s.task[e.on].status \in TaskMove[e.type][1]
    [] e.type \in {"conflict.opened", "conflict.resolved"} -> AdmitsConflict(s, e)
    [] OTHER -> FALSE

Admits(s, e) ==
  /\ e.id \notin s.ids
  /\ IF e.type = "project.initialized"
     THEN s.goal = 0
     ELSE s.goal > 0 /\ e.goal = s.goal /\ AdmitsType(s, e)

(***************************************************************************)
(* What an admitted event does to the state.                               *)
(***************************************************************************)
\* Approving a goal change stales every lease that has not ended.
MarkOlderBindingsStale(lease) ==
  [l \in DOMAIN lease |->
     IF lease[l].status = "active" THEN [lease[l] EXCEPT !.status = "stale"]
                                   ELSE lease[l]]

ApplyGoalChange(s, e) ==
  CASE e.type = "goal.change.proposed" ->
         [s EXCEPT !.change[e.on] = [status |-> "proposed", base |-> s.goal]]
    [] e.type = "goal.change.approved" ->
         [s EXCEPT !.change[e.on].status = "approved",
                   !.goal = s.goal + 1,
                   !.lease = MarkOlderBindingsStale(@)]
    [] e.type = "goal.change.rejected" ->
         [s EXCEPT !.change[e.on].status = "rejected"]

IssueLease(s, e) ==
  [s EXCEPT !.lease[e.on] = [status |-> "active", subject |-> e.subject,
                             task |-> e.task, scope |-> e.scope,
                             until |-> e.until]]

UpdateLease(s, e) ==
  CASE e.type = "lease.renewed"  -> [s EXCEPT !.lease[e.on].until = e.until]
    [] e.type = "lease.released" -> [s EXCEPT !.lease[e.on].status = "released"]
    [] e.type = "lease.revoked"  -> [s EXCEPT !.lease[e.on].status = "revoked"]

MoveTask(s, e) ==
  [s EXCEPT !.task[e.on] =
     [status |-> TaskMove[e.type][2],
      goal   |-> IF e.type = "requirement.planned" THEN s.goal ELSE @.goal,
      runner |-> IF e.type = "run.started" THEN e.actor ELSE @.runner]]

OpenTheConflict(s, e) ==
  [s EXCEPT !.conflicts = @ \cup
     {[id |-> e.id, code |-> e.code, batch |-> e.on,
       local |-> e.local, scope |-> e.scope, open |-> TRUE]}]

ResolveTheConflict(s, e) ==
  [s EXCEPT !.conflicts =
     {IF c.id = e.on THEN [c EXCEPT !.open = FALSE] ELSE c : c \in @}]

ApplyType(s, e) ==
  CASE e.type = "project.initialized" -> [s EXCEPT !.goal = 1]
    [] e.type \in GoalChanges         -> ApplyGoalChange(s, e)
    [] e.type = "lease.issued"        -> IssueLease(s, e)
    [] e.type \in LeaseUpdates        -> UpdateLease(s, e)
    [] e.type \in DOMAIN TaskMove     -> MoveTask(s, e)
    [] e.type = "conflict.opened"     -> OpenTheConflict(s, e)
    [] e.type = "conflict.resolved"   -> ResolveTheConflict(s, e)

Apply(s, e) ==
  IF s.ok /\ Admits(s, e)
  THEN [ApplyType(s, e) EXCEPT !.ids = @ \cup {e.id}]
  ELSE [s EXCEPT !.ok = FALSE]

\* FoldLeft, as a recursive function whose every value is chosen from a
\* singleton: so TLC computes it once.
Fold(op(_, _), base, seq) ==
  LET upTo[n \in 0..Len(seq)] ==
        IF n = 0 THEN base
        ELSE CHOOSE t \in {op(r, seq[n]) : r \in {upTo[n - 1]}} : TRUE
  IN upTo[Len(seq)]

Replay(s, history) == Fold(Apply, s, history)

Reduce(history) == Replay(Uninitialized, history)

Reducible(history) == Reduce(history).ok
-----------------------------------------------------------------------------
(***************************************************************************)
(* Policy.Authorize: may the authenticated actor of e submit it now, in    *)
(* the state the batch is previewed on?                                    *)
(***************************************************************************)
CurrentTask(s, t) == t # None /\ s.task[t].status # "none" /\ s.task[t].goal = s.goal

\* The window of a lease; its start is the moment it was issued.
InWindow(lease, now) == now <= lease.until

AssignedLease(s, e, now) ==
  /\ e.lease # None
  /\ LET lease == s.lease[e.lease] IN
     /\ lease.status = "active"
     /\ lease.subject = e.actor
     /\ InWindow(lease, now)
     /\ CurrentTask(s, lease.task)
     /\ e.task = lease.task
     /\ e.scope # {} /\ e.scope \subseteq lease.scope

MayIssueLease(s, e) ==
  /\ RoleOf[e.actor] \in {"owner", "lead"}
  /\ e.subject # None /\ e.scope # {}
  /\ CurrentTask(s, e.task)

MayResolve(role, code) ==
  CASE code = "stale_goal"        -> role = "owner"
    [] code = "evidence_mismatch" -> role \in {"owner", "lead", "reviewer"}
    [] OTHER                      -> role \in {"owner", "lead"}

Authorize(s, e, now) ==
  LET role == RoleOf[e.actor]
      leased == role \in {"agent", "contributor"} => AssignedLease(s, e, now)
  IN CASE e.type \in {"goal.change.approved", "goal.change.rejected"} ->
            role = "owner"
       [] e.type \in {"requirement.approved", "task.completed"} ->
            role \in {"owner", "lead", "reviewer"}
       [] e.type = "evidence.verified" ->
            e.actor # s.task[e.on].runner /\ leased
       [] e.type = "conflict.resolved" ->
            \E c \in s.conflicts : c.id = e.on /\ MayResolve(role, c.code)
       [] e.type = "lease.issued"  -> MayIssueLease(s, e)
       [] e.type = "lease.revoked" -> role \in {"owner", "lead"}
       [] e.type \in {"lease.renewed", "lease.released"} ->
            role \in {"owner", "lead"} \/ leased
       [] OTHER -> leased
=============================================================================
