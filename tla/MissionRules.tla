---------------------------- MODULE MissionRules ----------------------------
(***************************************************************************)
(* The part of the reducer (internal/model/reducer.go, agent.go) behind    *)
(* delegated execution: logical agents and their runtime bindings, leases, *)
(* approvals and missions; and Reduce's dispatch over it and Lifecycle.    *)
(*                                                                         *)
(* An envelope is a record of its content.  Its hash is a function of the  *)
(* content that no two envelopes share, so an approval's payload hash is   *)
(* the envelope itself.  Skills are granted like scopes: one set for both. *)
(***************************************************************************)
EXTENDS Lifecycle, SequencesExt

CONSTANTS Agents, Approvals, Missions, MissionLeases,
          Humans,     \* the human actors; an actor not in it is an agent
          RoleOf      \* the governance role of every human

Functions == {"manager", "build", "verify"}

\* An agent without a function has none of these.
ASSUME FunctionsAssumption == None \notin Functions

MissionStart ==
  [agent    |-> [a \in Agents |-> None],           \* its function
   binding  |-> [a \in Agents |-> <<>>],           \* its bindings, oldest first
   lease    |-> [l \in MissionLeases |->
                   [status |-> "none", subject |-> None, task |-> None,
                    context |-> None, env |-> None, goal |-> 0, scope |-> {}]],
   approval |-> [a \in Approvals |->
                   [status |-> "none", subject |-> None, hash |-> None,
                    risk |-> "L0", requester |-> None, decider |-> None]],
   missions |-> {}]

HasRole(actor, roles) == actor \in Humans /\ RoleOf[actor] \in roles
-----------------------------------------------------------------------------
(***************************************************************************)
(* Agents and bindings.  A binding's revision is its place in the history. *)
(***************************************************************************)
ApplyAgentIdentityRegistered(s, e) ==
  When(e.function \in Functions /\ s.agent[e.agent] = None,
       [s EXCEPT !.agent[e.agent] = e.function])

ApplyRuntimeBound(s, e) ==
  LET history == s.binding[e.agent]
      ended == [i \in DOMAIN history |->
                  IF i = Len(history) THEN [history[i] EXCEPT !.active = FALSE]
                                      ELSE history[i]]
  IN When(/\ HasRole(e.actor, {"owner"})
          /\ s.agent[e.agent] # None
          /\ e.revision = Len(history) + 1,
          [s EXCEPT !.binding[e.agent] =
             Append(ended, [env |-> e.env, principal |-> e.principal, active |-> TRUE])])
-----------------------------------------------------------------------------
(***************************************************************************)
(* Leases: a goal change stales every lease that has not ended.            *)
(***************************************************************************)
ApplyLeaseIssued(s, e) ==
  When(s.lease[e.lease].status = "none",
       [s EXCEPT !.lease[e.lease] =
          [status |-> "active", subject |-> e.subject, task |-> e.task,
           context |-> e.context, env |-> e.env, goal |-> s.goal,
           scope |-> e.scope]])

ApplyLeaseRevoked(s, e) ==
  When(s.lease[e.lease].status = "active",
       [s EXCEPT !.lease[e.lease].status = "revoked"])

StaleLeases(s) ==
  [s EXCEPT !.lease = [l \in MissionLeases |->
     IF @[l].status = "active" /\ @[l].goal < s.goal
     THEN [@[l] EXCEPT !.status = "stale"] ELSE @[l]]]
-----------------------------------------------------------------------------
(***************************************************************************)
(* Approvals.                                                              *)
(***************************************************************************)
ApprovalRequired(risk) == risk \in {"L2", "L3"}

CanDecideApproval(actor, risk) ==
  HasRole(actor, CASE risk = "L2" -> {"lead", "reviewer"}
                   [] risk = "L3" -> {"owner"}
                   [] OTHER       -> {"owner", "lead", "reviewer"})

\* Mutant: an approval of the mission, whatever envelope was shown for it.
HasApprovedMissionById(s, m) ==
  \E a \in Approvals : /\ s.approval[a].status = "approved"
                       /\ s.approval[a].subject = m.id
                       /\ s.approval[a].risk = m.risk

HasApprovedMissionApproval(s, m) ==
  \E a \in Approvals :
    /\ s.approval[a].status = "approved"
    /\ s.approval[a].subject = m.id
    /\ s.approval[a].hash = m
    /\ s.approval[a].risk = m.risk
    /\ s.approval[a].decider # s.approval[a].requester

ApplyApprovalRequested(s, e) ==
  When(s.approval[e.approval].status = "none",
       [s EXCEPT !.approval[e.approval] =
          [status |-> "requested", subject |-> e.subject, hash |-> e.hash,
           risk |-> e.risk, requester |-> e.actor, decider |-> None]])

Decides(s, e) ==
  LET approval == s.approval[e.approval] IN
  /\ approval.status = "requested"
  /\ approval.requester # e.actor
  /\ CanDecideApproval(e.actor, approval.risk)

ApplyApprovalDecided(s, e) ==
  When(/\ Decides(s, e)
       /\ s.approval[e.approval].hash = e.hash
       /\ e.decision \in {"approved", "rejected"},
       [s EXCEPT !.approval[e.approval].status = e.decision,
                 !.approval[e.approval].decider = e.actor])

ApplyApprovalInvalidated(s, e) ==
  When(Decides(s, e), [s EXCEPT !.approval[e.approval].status = "invalidated"])
-----------------------------------------------------------------------------
(***************************************************************************)
(* Missions.                                                               *)
(***************************************************************************)
IsMissionLeaseBoundToBuildAssignment(lease, build) == lease.subject = build

IsActiveMissionLease(lease, goal, context, env, task, build) ==
  /\ lease.status = "active" /\ lease.goal = goal
  /\ lease.context = context /\ lease.env = env /\ lease.task = task
  /\ IsMissionLeaseBoundToBuildAssignment(lease, build)

MissionCapabilitiesWithinLease(lease, scope) == scope \subseteq lease.scope

\* VerifyMissionEnvelope, of an envelope that names its lease.
VerifyMissionEnvelope(m, lease) ==
  /\ m.scope # {}
  /\ {"build", "verify"} \subseteq DOMAIN m.assign
  /\ m.assign["build"] # m.assign["verify"]
  /\ MissionCapabilitiesWithinLease(lease, m.scope)

AssignmentsActive(s, assign) ==
  \A f \in DOMAIN assign : s.agent[assign[f]] = f

ApplyMissionIssued(s, e) ==
  LET m == e.envelope
      lease == s.lease[m.lease]
      slice == s.context[m.context]
  IN When(/\ m.goal = s.goal
          /\ m.risk = "L3" => HasRole(e.actor, {"owner"})
          /\ ApprovalRequired(m.risk) => HasApprovedMissionApproval(s, m)
          /\ slice = [task |-> m.task, goal |-> s.goal, superseded |-> FALSE]
          /\ s.task[m.task] = [status |-> "Approved", goal |-> s.goal]
          /\ IsActiveMissionLease(lease, s.goal, m.context, m.env, m.task,
                                  m.assign["build"])
          /\ Cardinality({l \in MissionLeases :
               IsActiveMissionLease(s.lease[l], s.goal, m.context, m.env,
                                    m.task, m.assign["build"])}) = 1
          /\ VerifyMissionEnvelope(m, lease)
          /\ AssignmentsActive(s, m.assign)
          /\ \A other \in s.missions : other.id # m.id,
          [s EXCEPT !.missions = @ \cup {m}])
-----------------------------------------------------------------------------
(***************************************************************************)
(* Reduce.  The state of a project joins both parts; ok is FALSE once an   *)
(* event was refused, for then the whole log is.  An event's id is fresh   *)
(* and its goal version is read under the lock its append needs, so        *)
(* neither is kept.                                                        *)
(***************************************************************************)
Initialized ==
  [f \in DOMAIN LifecycleStart \cup DOMAIN MissionStart \cup {"ok"} |->
     IF f \in DOMAIN LifecycleStart THEN LifecycleStart[f]
     ELSE IF f \in DOMAIN MissionStart THEN MissionStart[f] ELSE TRUE]

ApplyEvent(s, e) ==
  CASE e.type = "goal.change.proposed" -> ApplyGoalChangeProposed(s, e)
    [] e.type = "goal.change.approved" ->
         {StaleLeases(t) : t \in ApplyGoalChangeApproved(s, e)}
    [] e.type = "requirement.planned"  -> ApplyRequirementPlanned(s, e)
    [] e.type = "requirement.approved" -> ApplyRequirementApproved(s, e)
    [] e.type = "context.issued"       -> ApplyContextIssued(s, e)
    [] e.type = "context.superseded"   -> ApplyContextSuperseded(s, e)
    [] e.type = "run.started"          -> ApplyRunStarted(s, e)
    [] e.type = "run.step.started"     -> ApplyRunStepStarted(s, e)
    [] e.type = "run.step.finished"    -> ApplyRunStepFinished(s, e)
    [] e.type = "checkpoint.created"   -> ApplyCheckpointCreated(s, e)
    [] e.type = "executor.event.received"     -> ApplyExecutorEventReceived(s, e)
    [] e.type = "run.resumed"                 -> ApplyRunResumed(s, e)
    [] e.type = "run.finished"                -> ApplyRunFinished(s, e)
    [] e.type = "evidence.recorded"           -> ApplyEvidenceRecorded(s, e)
    [] e.type = "evidence.candidate.recorded" -> ApplyEvidenceCandidateRecorded(s, e)
    [] e.type = "evidence.verified"           -> ApplyEvidenceVerified(s, e)
    [] e.type = "evidence.invalidated"        -> ApplyEvidenceInvalidated(s, e)
    [] e.type = "task.completed"              -> ApplyTaskCompleted(s, e)
    [] e.type = "changes.scanned"             -> ApplyChangesScanned(s, e)
    [] e.type = "change.attributed"           -> ApplyChangeAttributed(s, e)
    [] e.type = "agent.identity.registered"   -> ApplyAgentIdentityRegistered(s, e)
    [] e.type = "agent.runtime.bound"         -> ApplyRuntimeBound(s, e)
    [] e.type = "lease.issued"                -> ApplyLeaseIssued(s, e)
    [] e.type = "lease.revoked"               -> ApplyLeaseRevoked(s, e)
    [] e.type = "approval.requested"          -> ApplyApprovalRequested(s, e)
    [] e.type = "approval.decided"            -> ApplyApprovalDecided(s, e)
    [] e.type = "approval.invalidated"        -> ApplyApprovalInvalidated(s, e)
    [] e.type = "mission.issued"              -> ApplyMissionIssued(s, e)

Reduced(s, e) ==
  IF ~s.ok THEN s
  ELSE LET next == ApplyEvent(s, e)
       IN IF next = {} THEN [s EXCEPT !.ok = FALSE]
                       ELSE CHOOSE t \in next : TRUE

\* The state after a batch: the log is always extended by whole batches.  The
\* state after n events is chosen from a singleton, so that TLC computes it once.
ReducedBatch(s, batch) ==
  LET after[n \in 0..Len(batch)] ==
        IF n = 0 THEN s
        ELSE CHOOSE t \in {Reduced(r, batch[n]) : r \in {after[n - 1]}} : TRUE
  IN after[Len(batch)]
=============================================================================
