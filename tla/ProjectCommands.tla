-------------------------- MODULE ProjectCommands --------------------------
(***************************************************************************)
(* What a command of the application service (internal/app) appends to the *)
(* project's log.  A command is an operator that gives the batches of      *)
(* events it may append in the state s it read, with the workspace w it    *)
(* scanned; the set is empty when the command returns an error or has      *)
(* nothing to append.                                                      *)
(***************************************************************************)
EXTENDS MissionRules

-----------------------------------------------------------------------------
(***************************************************************************)
(* Plan, Approve, BuildContext, startRun, FinishRun.                       *)
(***************************************************************************)
Plan(s) ==
  {<<[type |-> "requirement.planned", task |-> t]>> :
     t \in {u \in Tasks : s.task[u].status = "none"}}

Approve(s, actor) ==
  {<<[type |-> "requirement.approved", task |-> t]>> :
     t \in {u \in Tasks : /\ s.task[u].status = "Draft"
                          /\ HasRole(actor, {"owner", "lead"})}}

CurrentContext(s, c, t) ==
  s.context[c] = [task |-> t, goal |-> s.goal, superseded |-> FALSE]

\* The id generator gives an id no record of the state has.
Fresh(ids, used) == IF ids \subseteq used THEN {} ELSE {CHOOSE i \in ids : i \notin used}

BuildContext(s) ==
  LET open  == {t \in Tasks : s.task[t] = [status |-> "Approved", goal |-> s.goal]}
      fresh == Fresh(Contexts, {c \in Contexts : s.context[c].task # None})
      issued(t, c) == [type |-> "context.issued", task |-> t, context |-> c, goal |-> s.goal]
      replaced(t) == {c \in Contexts : /\ s.context[c].task = t
                                       /\ ~s.context[c].superseded}
  IN UNION {{<<issued(t, c)>>} \cup
            {<<issued(t, c), [type |-> "context.superseded", context |-> old]>> :
               old \in replaced(t)} : t \in open, c \in fresh}

StartRun(s, actor) ==
  {<<[type |-> "run.started", task |-> x[1], context |-> x[2], actor |-> actor]>> :
     x \in {y \in Tasks \X (Contexts \cup {None}) :
              /\ s.task[y[1]].status = "Approved"
              /\ y[2] # None => CurrentContext(s, y[2], y[1])}}

OwnsRun(s, t, actor) == actor = s.run[t].actor \/ HasRole(actor, {"owner"})

FinishRun(s, actor) ==
  {<<[type |-> "run.finished", task |-> t]>> :
     t \in {u \in Tasks : s.run[u].status = "Running" /\ OwnsRun(s, u, actor)}}
-----------------------------------------------------------------------------
(***************************************************************************)
(* Scans and attributions.  w is what the scanner reports.                 *)
(***************************************************************************)
Uncredited(s, w, t) ==
  \E p \in Paths :
    /\ w[p] # Baseline
    /\ \A x \in s.credited :
         ~(x.path = p /\ x.version = w[p] /\ x.to \in {t, Manual})

RecordScan(w) == {<<[type |-> "changes.scanned", files |-> w]>>}

AttributeChange(s) ==
  {<<[type |-> "change.attributed", path |-> x[1], version |-> s.changed[x[1]],
      to |-> x[2]]>> :
     x \in {y \in Paths \X (Tasks \cup {Manual}) :
              /\ s.changed[y[1]] # Baseline
              /\ y[2] = Manual \/ s.task[y[2]].status # "none"}}
-----------------------------------------------------------------------------
(***************************************************************************)
(* Verify, RecordEvidenceCandidate, VerifyEvidence, Complete.              *)
(***************************************************************************)
FreshEvidence(s) == Fresh(Evidence, {e \in Evidence : s.evidence[e].status # "none"})

Verify(s, w) ==
  {<<[type |-> "evidence.recorded", task |-> x[1], evidence |-> x[2], passed |-> x[3]]>> :
     x \in {y \in Tasks \X FreshEvidence(s) \X BOOLEAN :
              s.task[y[1]].status = "Verifying" /\ ~Uncredited(s, w, y[1])}}

\* validateCandidateBinding, and the verifier's validateBindings without the
\* status of the task.
CurrentRun(s, t) ==
  LET run == s.run[t] IN
  /\ s.task[t].goal = s.goal
  /\ run.status = "Finished" /\ run.goal = s.goal
  /\ run.context # None /\ CurrentContext(s, run.context, t)

RecordEvidenceCandidate(s) ==
  {<<[type |-> "evidence.candidate.recorded", task |-> x[1], evidence |-> x[2],
      context |-> s.run[x[1]].context, goal |-> s.goal]>> :
     x \in {y \in Tasks \X FreshEvidence(s) :
              s.task[y[1]].status = "Verifying" /\ CurrentRun(s, y[1])}}

\* What the verifier decides of record e; sound is whether the artifact has
\* its digest and the command succeeds.
Decision(s, w, e, last, sound) ==
  LET record == s.evidence[e] IN
  IF ~CurrentRun(s, record.task) \/ s.run[record.task].context # record.context
    THEN "stale"
  ELSE IF last \notin {None, w} THEN "stale"
  ELSE IF ~Uncredited(s, w, record.task) /\ sound THEN "verified"
  ELSE "rejected"

VerifyEvidence(s, w, e, last, sound) ==
  LET record   == s.evidence[e]
      decision == Decision(s, w, e, last, sound)
  IN IF record.status # "candidate" THEN {}
     ELSE {<<[type     |-> IF decision = "verified" THEN "evidence.verified"
                                                    ELSE "evidence.invalidated",
              task     |-> record.task, evidence |-> e,
              context  |-> record.context, goal |-> record.goal,
              digest   |-> IF decision = "stale" THEN None ELSE w]>>}

Contextual(s, t) ==
  {e \in Evidence : s.evidence[e].task = t /\ s.evidence[e].context # None}

HasCurrentVerifiedEvidence(s, t, w) ==
  /\ s.run[t].status # "none" /\ s.run[t].context # None
  /\ ~s.context[s.run[t].context].superseded
  /\ \E e \in Contextual(s, t) :
       s.evidence[e] = [status |-> "verified", task |-> t,
                        context |-> s.run[t].context, goal |-> s.goal, digest |-> w]

\* invalidateContextualEvidence: every open record of the task at once.
InvalidateContextualEvidence(s, t) ==
  LET open == {e \in Contextual(s, t) :
                 s.evidence[e].status \in {"candidate", "verified"}}
  IN {[i \in DOMAIN ids |->
         [type |-> "evidence.invalidated", task |-> t, evidence |-> ids[i],
          digest |-> None]] : ids \in {SetToSeq(open)}} \ {<<>>}

\* Complete drops the evidence that is no longer current before it looks at
\* who is asking.
Complete(s, w, t, actor) ==
  IF s.task[t].status # "Verified" THEN {}
  ELSE IF \/ Contextual(s, t) # {} /\ ~HasCurrentVerifiedEvidence(s, t, w)
          \/ Uncredited(s, w, t)
    THEN InvalidateContextualEvidence(s, t)
  ELSE {<<[type |-> "task.completed", task |-> x]>> :
          x \in {t} \cap {u \in Tasks : HasRole(actor, {"reviewer", "owner"})}}

Completes(batch) == batch[1].type = "task.completed"
-----------------------------------------------------------------------------
(***************************************************************************)
(* Missions: RequestApproval, DecideApproval, IssueMission.  An envelope   *)
(* that prepareMission builds is a draft bound to the state: the draft is  *)
(* the input of the caller, who repeats it to be approved and then issued. *)
(***************************************************************************)
Envelope(s, d, l) ==
  [id |-> d.id, task |-> d.task, context |-> d.context, lease |-> l,
   goal |-> s.goal, scope |-> d.scope, assign |-> d.assign, risk |-> d.risk,
   env |-> d.env]

CurrentMissionLease(s, d) ==
  {l \in MissionLeases :
     IsActiveMissionLease(s.lease[l], s.goal, d.context, d.env, d.task,
                          d.assign["build"])}

\* mission.Build checks again what prepareMission has checked, and that the
\* build and verify agents differ.
PrepareMission(s, d) ==
  LET leases == CurrentMissionLease(s, d) IN
  {Envelope(s, d, l) :
     l \in {k \in leases :
              /\ CurrentContext(s, d.context, d.task)
              /\ s.task[d.task] = [status |-> "Approved", goal |-> s.goal]
              /\ AssignmentsActive(s, d.assign)
              /\ Cardinality(leases) = 1
              /\ VerifyMissionEnvelope(Envelope(s, d, k), s.lease[k])}}

FreshApproval(s) == Fresh(Approvals, {a \in Approvals : s.approval[a].status # "none"})

\* For the hash of the mission as it would be prepared, or of anything else (None), at any risk:
\* neither is compared with the mission here.
RequestApproval(s, d, risk, actor) ==
  {<<[type |-> "approval.requested", approval |-> a, subject |-> d.id, hash |-> h,
      risk |-> risk, actor |-> actor]>> :
     a \in FreshApproval(s), h \in PrepareMission(s, d) \cup {None}}

\* The decider names the hash he saw: that of the request, or another one when
\* the mission reads differently by now.
DecideApproval(s, a, decision, actor) ==
  IF Decides(s, [approval |-> a, actor |-> actor])
  THEN {<<[type |-> "approval.decided", approval |-> a, actor |-> actor,
           hash |-> s.approval[a].hash, decision |-> decision]>>,
        <<[type |-> "approval.invalidated", approval |-> a, actor |-> actor]>>}
  ELSE {}

IssueMission(s, d, actor) ==
  {<<[type |-> "mission.issued", envelope |-> m, actor |-> actor]>> :
     m \in {n \in PrepareMission(s, d) :
              /\ n.risk = "L3" => HasRole(actor, {"owner"})
              /\ ApprovalRequired(n.risk) => HasApprovedMissionApproval(s, n)}}

-----------------------------------------------------------------------------
(***************************************************************************)
(* Runtime bindings.  A topology gives some of the agents a function and a *)
(* runtime; it is bound as a whole, in one batch.  Events of different     *)
(* agents commute, so their order is free: the identities come first.      *)
(***************************************************************************)
Bound(s, a, runtime, actor) ==
  [type |-> "agent.runtime.bound", agent |-> a, env |-> runtime.env,
   principal |-> runtime.principal, revision |-> Len(s.binding[a]) + 1, actor |-> actor]

Registered(a, runtime) ==
  [type |-> "agent.identity.registered", agent |-> a, function |-> runtime.function]

Active(runtime) ==
  [env |-> runtime.env, principal |-> runtime.principal, active |-> TRUE]

\* Mutant: the first binding of an agent is compared, not the latest.
SameFirstBinding(s, a, runtime) ==
  s.binding[a] # <<>> /\ [s.binding[a][1] EXCEPT !.active = TRUE] = Active(runtime)

SameActiveBinding(s, a, runtime) ==
  s.binding[a] # <<>> /\ Last(s.binding[a]) = Active(runtime)

\* Nothing is written when every agent is bound so already; otherwise every
\* agent of the topology gets a revision, those whose runtime stays included.
BindRuntimeTopology(s, topology, actor) ==
  LET agents == SetToSeq(DOMAIN topology) IN
  When(/\ HasRole(actor, {"owner"})
       /\ \A a \in DOMAIN topology : s.agent[a] # None
       /\ \E a \in DOMAIN topology : ~SameActiveBinding(s, a, topology[a]),
       [i \in DOMAIN agents |-> Bound(s, agents[i], topology[agents[i]], actor)])

\* Registers the agents that are new and binds those without a binding; an agent
\* with another function, or bound elsewhere, fails all of them.
BootstrapRuntimeTopology(s, topology, actor) ==
  LET new == SetToSeq({a \in DOMAIN topology : s.agent[a] = None})
      unbound == SetToSeq({a \in DOMAIN topology : s.binding[a] = <<>>})
      batch == [i \in DOMAIN new |-> Registered(new[i], topology[new[i]])] \o
               [i \in DOMAIN unbound |-> Bound(s, unbound[i], topology[unbound[i]], actor)]
  IN When(/\ HasRole(actor, {"owner"})
          /\ \A a \in DOMAIN topology :
               /\ s.agent[a] \in {None, topology[a].function}
               /\ s.binding[a] = <<>> \/ SameActiveBinding(s, a, topology[a])
          /\ batch # <<>>,
          batch)
=============================================================================
